---- MODULE Spec2Model ----
(***************************************************************************)
(* Model of deepseek-code: the Permission Engine (permissions.py) and the  *)
(* orchestration loop (agent.py) with its collaborators (llm.py,           *)
(* conversation.py, tools/base.py).                                        *)
(*                                                                         *)
(* Text (commands, paths, session rules) is a sequence of one-character    *)
(* strings, so that substring tests, prefixes and regular expressions are  *)
(* computed on the characters as the Python code computes them.            *)
(***************************************************************************)
EXTENDS Integers, Sequences, FiniteSets, TLC

(***************************************************************************)
(* Bounds of the model.                                                    *)
(***************************************************************************)
\* largest turn budget (AgentConfig.max_turns) explored
MaxTurns == 2
\* largest number of tool calls in one model reply
MaxBatch == 2
\* largest number of tool calls the model requests during one task
MaxCalls == 2
\* largest number of add_to_allowlist / add_to_denylist calls in PermSpec
MaxRules == 2

None == "None"

(***************************************************************************)
(* Characters and strings.                                                 *)
(***************************************************************************)
\* str.lower() on the letters it changes
LOWER ==
    "A" :> "a" @@ "B" :> "b" @@ "C" :> "c" @@ "D" :> "d" @@ "E" :> "e"
    @@ "F" :> "f" @@ "G" :> "g" @@ "H" :> "h" @@ "I" :> "i" @@ "J" :> "j"
    @@ "K" :> "k" @@ "L" :> "l" @@ "M" :> "m" @@ "N" :> "n" @@ "O" :> "o"
    @@ "P" :> "p" @@ "Q" :> "q" @@ "R" :> "r" @@ "S" :> "s" @@ "T" :> "t"
    @@ "U" :> "u" @@ "V" :> "v" @@ "W" :> "w" @@ "X" :> "x" @@ "Y" :> "y"
    @@ "Z" :> "z"

UPPER == DOMAIN LOWER

\* str.lower() on one character
LowerChar(c) == IF c \in UPPER THEN LOWER[c] ELSE c

\* str.lower()
Lower(s) == [k \in 1..Len(s) |-> LowerChar(s[k])]

\* the characters matched by \s and removed by str.strip() / str.split()
WHITESPACE == {" ", "\t", "\n", "\r", "\f"}

RECURSIVE LStrip(_)
LStrip(s) == IF Len(s) > 0 /\ s[1] \in WHITESPACE THEN LStrip(Tail(s)) ELSE s

RECURSIVE RStrip(_)
RStrip(s) ==
    IF Len(s) > 0 /\ s[Len(s)] \in WHITESPACE
    THEN RStrip(SubSeq(s, 1, Len(s) - 1))
    ELSE s

\* str.strip()
Strip(s) == RStrip(LStrip(s))

\* `sub in s`
Contains(s, sub) ==
    \E k \in 0..(Len(s) - Len(sub)) : SubSeq(s, k + 1, k + Len(sub)) = sub

\* s.startswith(pre)
StartsWith(s, pre) == Len(s) >= Len(pre) /\ SubSeq(s, 1, Len(pre)) = pre

\* s.endswith(suf)
EndsWith(s, suf) ==
    Len(s) >= Len(suf) /\ SubSeq(s, Len(s) - Len(suf) + 1, Len(s)) = suf

\* s[a:-1] for a >= 0 (Python slice: empty when the bounds cross)
SliceToLast(s, a) == SubSeq(s, a + 1, Len(s) - 1)

\* s.replace(ch, rep) for a one-character needle
RECURSIVE Replace(_, _, _)
Replace(s, ch, rep) ==
    IF Len(s) = 0 THEN <<>>
    ELSE (IF s[1] = ch THEN rep ELSE <<s[1]>>) \o Replace(Tail(s), ch, rep)

RECURSIVE TakeToken(_)
TakeToken(s) ==
    IF Len(s) = 0 \/ s[1] \in WHITESPACE THEN <<>>
    ELSE <<s[1]>> \o TakeToken(Tail(s))

\* s.split() == []: s is empty or all whitespace
SplitIsEmpty(s) == Len(LStrip(s)) = 0

\* s.split()[0] when s.split() is not empty: the first
\* whitespace-separated token
SplitFirst(s) == TakeToken(LStrip(s))

(***************************************************************************)
(* Regular expressions (module re): a pattern is a sequence of items.     *)
(***************************************************************************)
Chr(c) == [t |-> "chr", c |-> c]
Ws == [t |-> "ws"]
Dot == [t |-> "any"]
Eol == [t |-> "eol"]
Star(a) == [t |-> "star", a |-> a]
Plus(a) == [t |-> "plus", a |-> a]
Opt(a) == [t |-> "opt", a |-> a]
Alt(l, r) == [t |-> "alt", l |-> l, r |-> r]
Grp(s) == [t |-> "grp", s |-> s]
Lits(s) == [k \in 1..Len(s) |-> Chr(s[k])]

\* one step of a single-character atom from every position of S;
\* ic is re.IGNORECASE
AtomStep(a, text, S, ic) ==
    { p + 1 : p \in { q \in S :
        /\ q < Len(text)
        /\ CASE a.t = "chr" ->
                  IF ic THEN LowerChar(text[q + 1]) = LowerChar(a.c)
                        ELSE text[q + 1] = a.c
             [] a.t = "ws" -> text[q + 1] \in WHITESPACE
             [] a.t = "any" -> text[q + 1] # "\n" } }

RECURSIVE AtomClosure(_, _, _, _)
AtomClosure(a, text, S, ic) ==
    LET N == S \cup AtomStep(a, text, S, ic)
    IN IF N = S THEN S ELSE AtomClosure(a, text, N, ic)

\* the positions at which a match of the pattern re can end when it starts
\* at a position of S
RECURSIVE MatchSeq(_, _, _, _)
MatchItem(it, text, S, ic) ==
    CASE it.t \in {"chr", "ws", "any"} -> AtomStep(it, text, S, ic)
      [] it.t = "eol" ->
            { p \in S : \/ p = Len(text)
                        \/ p = Len(text) - 1 /\ text[Len(text)] = "\n" }
      [] it.t = "star" -> AtomClosure(it.a, text, S, ic)
      [] it.t = "plus" ->
            AtomClosure(it.a, text, AtomStep(it.a, text, S, ic), ic)
      [] it.t = "opt" -> S \cup AtomStep(it.a, text, S, ic)
      [] it.t = "alt" ->
            MatchSeq(it.l, text, S, ic) \cup MatchSeq(it.r, text, S, ic)
      [] it.t = "grp" -> MatchSeq(it.s, text, S, ic)

MatchSeq(re, text, S, ic) ==
    IF Len(re) = 0 \/ S = {} THEN S
    ELSE MatchSeq(Tail(re), text, MatchItem(Head(re), text, S, ic), ic)

\* re.search(pattern, text, flags)
re_search(re, text, ic) == MatchSeq(re, text, 0..Len(text), ic) # {}

\* re.match(pattern, text)
re_match(re, text) == MatchSeq(re, text, {0}, FALSE) # {}

\* re.compile for the patterns _matches_pattern builds from session rules
\* of the model's alphabet: `.` is any character, `*` and `+` after a
\* character repeat it (zero or more, one or more times), every other
\* character is a literal. (A `+` that follows no character, or follows
\* another repeat, is outside the model's patterns.)
RECURSIVE re_compile(_)
re_compile(s) ==
    IF Len(s) = 0 THEN <<>>
    ELSE LET a == IF s[1] = "." THEN Dot ELSE Chr(s[1])
         IN IF Len(s) >= 2 /\ s[2] = "*"
            THEN <<Star(a)>> \o re_compile(SubSeq(s, 3, Len(s)))
            ELSE IF Len(s) >= 2 /\ s[2] = "+"
            THEN <<Plus(a)>> \o re_compile(SubSeq(s, 3, Len(s)))
            ELSE <<a>> \o re_compile(Tail(s))

(***************************************************************************)
(* permissions.py: PermissionManager.                                      *)
(***************************************************************************)
AUTO == "auto"
ASK == "ask"
DENY == "deny"

DANGEROUS_BASH_PATTERNS == <<
    [re |-> Lits(<<"r","m">>) \o <<Plus(Ws), Chr("-"), Chr("r"),
                                   Opt(Chr("f")), Plus(Ws), Chr("/")>>,
     reason |-> "Recursive delete from root"],
    [re |-> Lits(<<"r","m">>) \o <<Plus(Ws), Chr("-"), Chr("r"),
                                   Opt(Chr("f")), Plus(Ws), Chr("~")>>,
     reason |-> "Recursive delete from home"],
    [re |-> Lits(<<"r","m">>) \o <<Plus(Ws), Chr("-"), Chr("r"),
                                   Opt(Chr("f")), Plus(Ws), Chr("*")>>,
     reason |-> "Recursive delete with wildcard"],
    [re |-> Lits(<<"s","u","d","o">>) \o <<Plus(Ws)>>,
     reason |-> "Sudo command"],
    [re |-> Lits(<<"c","h","m","o","d">>) \o <<Plus(Ws)>>
            \o Lits(<<"7","7","7">>),
     reason |-> "World-writable permissions"],
    [re |-> <<Chr(">"), Star(Ws)>> \o Lits(<<"/","d","e","v","/","s","d">>),
     reason |-> "Write to disk device"],
    [re |-> <<Chr("|"), Star(Ws)>> \o Lits(<<"s","h">>) \o <<Star(Ws), Eol>>,
     reason |-> "Piping to shell"],
    [re |-> <<Chr("|"), Star(Ws)>> \o Lits(<<"b","a","s","h">>)
            \o <<Star(Ws), Eol>>,
     reason |-> "Piping to bash"],
    [re |-> Lits(<<"c","u","r","l">>) \o <<Star(Dot), Chr("|"), Star(Ws),
            Alt(Lits(<<"s","h">>), Lits(<<"b","a","s","h">>))>>,
     reason |-> "Curl piping to shell"],
    [re |-> Lits(<<"w","g","e","t">>) \o <<Star(Dot), Chr("|"), Star(Ws),
            Alt(Lits(<<"s","h">>), Lits(<<"b","a","s","h">>))>>,
     reason |-> "Wget piping to shell"],
    [re |-> <<Chr(":"), Grp(<<>>), Star(Ws), Chr("{"), Star(Ws), Chr(":"),
              Chr("|"), Chr(":"), Chr("&"), Star(Ws), Chr("}")>>,
     reason |-> "Fork bomb"],
    [re |-> Lits(<<"m","k","f","s">>) \o <<Chr(".")>>,
     reason |-> "Filesystem format"] >>

BLOCKED_COMMANDS == <<
    [lit |-> <<"r","m"," ","-","r","f"," ","/">>, str |-> "rm -rf /"],
    [lit |-> <<"r","m"," ","-","r","f"," ","/","*">>, str |-> "rm -rf /*"],
    [lit |-> <<"d","d"," ","i","f","=","/","d","e","v","/","z","e","r","o",
               " ","o","f","=","/","d","e","v","/","s","d","a">>,
     str |-> "dd if=/dev/zero of=/dev/sda"] >>

BASH_RULE == <<"b","a","s","h","(">>
WRITE_RULE == <<"w","r","i","t","e","(">>
RULE_END == <<")">>

\* PermissionManager._matches_pattern
_matches_pattern(text, pattern) ==
    LET regex_pattern ==
            Replace(Replace(pattern, "*", <<".", "*">>), "?", <<".">>)
    IN re_match(re_compile(regex_pattern), text)

\* RuleMatches without the test that the rule is of the given kind
RuleMatches_AnyKind(rules, kind, text) ==
    \E rule \in rules :
        /\ EndsWith(rule, RULE_END)
        /\ _matches_pattern(text, SliceToLast(rule, Len(kind)))

\* the rules of a session set of the given kind, as the loops of
\* _check_bash_command and check_permission select and slice them
RuleMatches(rules, kind, text) ==
    \E rule \in rules :
        /\ StartsWith(rule, kind) /\ EndsWith(rule, RULE_END)
        /\ _matches_pattern(text, SliceToLast(rule, Len(kind)))

\* _check_bash_command with the session allowlist consulted before the
\* blocked and dangerous checks
_check_bash_command_AllowFirst(command, allowlist, denylist) ==
    LET cmd_lower == Strip(Lower(command))
        B == { k \in 1..Len(BLOCKED_COMMANDS) :
                 Contains(cmd_lower, BLOCKED_COMMANDS[k].lit) }
        D == { k \in 1..Len(DANGEROUS_BASH_PATTERNS) :
                 re_search(DANGEROUS_BASH_PATTERNS[k].re, command, TRUE) }
        First(S) == CHOOSE k \in S : \A j \in S : k <= j
    IN IF RuleMatches(allowlist, BASH_RULE, command)
       THEN <<AUTO, None>>
       ELSE IF B # {}
       THEN <<DENY, "Blocked command: " \o BLOCKED_COMMANDS[First(B)].str>>
       ELSE IF D # {}
       THEN <<DENY, "Dangerous pattern: "
                      \o DANGEROUS_BASH_PATTERNS[First(D)].reason>>
       ELSE IF RuleMatches(denylist, BASH_RULE, command)
       THEN <<DENY, "Denied by session rule">>
       ELSE <<ASK, None>>

\* _check_bash_command with the session denylist consulted before the
\* session allowlist
_check_bash_command_DenyFirst(command, allowlist, denylist) ==
    LET cmd_lower == Strip(Lower(command))
        B == { k \in 1..Len(BLOCKED_COMMANDS) :
                 Contains(cmd_lower, BLOCKED_COMMANDS[k].lit) }
        D == { k \in 1..Len(DANGEROUS_BASH_PATTERNS) :
                 re_search(DANGEROUS_BASH_PATTERNS[k].re, command, TRUE) }
        First(S) == CHOOSE k \in S : \A j \in S : k <= j
    IN IF B # {}
       THEN <<DENY, "Blocked command: " \o BLOCKED_COMMANDS[First(B)].str>>
       ELSE IF D # {}
       THEN <<DENY, "Dangerous pattern: "
                      \o DANGEROUS_BASH_PATTERNS[First(D)].reason>>
       ELSE IF RuleMatches(denylist, BASH_RULE, command)
       THEN <<DENY, "Denied by session rule">>
       ELSE IF RuleMatches(allowlist, BASH_RULE, command)
       THEN <<AUTO, None>>
       ELSE <<ASK, None>>

\* PermissionManager._check_bash_command: <<level, reason>>
_check_bash_command(command, allowlist, denylist) ==
    LET cmd_lower == Strip(Lower(command))
        B == { k \in 1..Len(BLOCKED_COMMANDS) :
                 Contains(cmd_lower, BLOCKED_COMMANDS[k].lit) }
        D == { k \in 1..Len(DANGEROUS_BASH_PATTERNS) :
                 re_search(DANGEROUS_BASH_PATTERNS[k].re, command, TRUE) }
        First(S) == CHOOSE k \in S : \A j \in S : k <= j
    IN IF B # {}
       THEN <<DENY, "Blocked command: " \o BLOCKED_COMMANDS[First(B)].str>>
       ELSE IF D # {}
       THEN <<DENY, "Dangerous pattern: "
                      \o DANGEROUS_BASH_PATTERNS[First(D)].reason>>
       ELSE IF RuleMatches(allowlist, BASH_RULE, command)
       THEN <<AUTO, None>>
       ELSE IF RuleMatches(denylist, BASH_RULE, command)
       THEN <<DENY, "Denied by session rule">>
       ELSE <<ASK, None>>

\* dict.get(key, "")
Get(tool_input, key) ==
    IF key \in DOMAIN tool_input THEN tool_input[key] ELSE <<>>

\* no PermissionRequest has been created for the current call
NoRequest ==
    [tool_name |-> None, tool_input |-> <<>>, level |-> None,
     reason |-> None]

PermissionRequest(tool_name, tool_input, level, reason) ==
    [tool_name |-> tool_name, tool_input |-> tool_input,
     level |-> level, reason |-> reason]

\* check_permission with bypass-all mode approving before any check
check_permission_YoloFirst(tool_name, tool_input, trust, yolo, allowlist, denylist) ==
    LET bash == _check_bash_command(Get(tool_input, "command"),
                                    allowlist, denylist)
    IN IF yolo
       THEN PermissionRequest(tool_name, tool_input, AUTO, None)
       ELSE IF tool_name \in {"read_file", "glob", "grep"}
       THEN PermissionRequest(tool_name, tool_input, AUTO, None)
       ELSE IF tool_name \in {"write_file", "edit_file"}
       THEN IF RuleMatches(allowlist, WRITE_RULE, Get(tool_input, "path"))
            THEN PermissionRequest(tool_name, tool_input, AUTO, None)
            ELSE PermissionRequest(tool_name, tool_input,
                                   IF ~trust THEN ASK ELSE AUTO, None)
       ELSE IF tool_name = "bash"
       THEN PermissionRequest(tool_name, tool_input,
                IF bash[1] = ASK /\ trust THEN AUTO ELSE bash[1], bash[2])
       ELSE PermissionRequest(tool_name, tool_input,
                              IF ~trust THEN ASK ELSE AUTO, None)

\* check_permission with grep missing from the read-only tools
check_permission_NoGrep(tool_name, tool_input, trust, yolo, allowlist, denylist) ==
    LET bash == _check_bash_command(Get(tool_input, "command"),
                                    allowlist, denylist)
    IN IF yolo
       THEN IF tool_name = "bash" /\ bash[1] = DENY
            THEN PermissionRequest(tool_name, tool_input, bash[1], bash[2])
            ELSE PermissionRequest(tool_name, tool_input, AUTO, None)
       ELSE IF tool_name \in {"read_file", "glob"}
       THEN PermissionRequest(tool_name, tool_input, AUTO, None)
       ELSE IF tool_name \in {"write_file", "edit_file"}
       THEN IF RuleMatches(allowlist, WRITE_RULE, Get(tool_input, "path"))
            THEN PermissionRequest(tool_name, tool_input, AUTO, None)
            ELSE PermissionRequest(tool_name, tool_input,
                                   IF ~trust THEN ASK ELSE AUTO, None)
       ELSE IF tool_name = "bash"
       THEN PermissionRequest(tool_name, tool_input,
                IF bash[1] = ASK /\ trust THEN AUTO ELSE bash[1], bash[2])
       ELSE PermissionRequest(tool_name, tool_input,
                              IF ~trust THEN ASK ELSE AUTO, None)

\* PermissionManager.check_permission
check_permission(tool_name, tool_input, trust, yolo, allowlist, denylist) ==
    LET bash == _check_bash_command(Get(tool_input, "command"),
                                    allowlist, denylist)
    IN IF yolo
       THEN IF tool_name = "bash" /\ bash[1] = DENY
            THEN PermissionRequest(tool_name, tool_input, bash[1], bash[2])
            ELSE PermissionRequest(tool_name, tool_input, AUTO, None)
       ELSE IF tool_name \in {"read_file", "glob", "grep"}
       THEN PermissionRequest(tool_name, tool_input, AUTO, None)
       ELSE IF tool_name \in {"write_file", "edit_file"}
       THEN IF RuleMatches(allowlist, WRITE_RULE, Get(tool_input, "path"))
            THEN PermissionRequest(tool_name, tool_input, AUTO, None)
            ELSE PermissionRequest(tool_name, tool_input,
                                   IF ~trust THEN ASK ELSE AUTO, None)
       ELSE IF tool_name = "bash"
       THEN PermissionRequest(tool_name, tool_input,
                IF bash[1] = ASK /\ trust THEN AUTO ELSE bash[1], bash[2])
       ELSE PermissionRequest(tool_name, tool_input,
                              IF ~trust THEN ASK ELSE AUTO, None)

(***************************************************************************)
(* tools/base.py, llm.py, conversation.py: the data the loop handles.      *)
(***************************************************************************)
\* create_default_registry: the registered tools and the keyword
\* parameters of their execute methods
REGISTRY ==
    [read_file |-> [required |-> {"path"}, optional |-> {"limit", "offset"}],
     write_file |-> [required |-> {"path", "content"}, optional |-> {}],
     edit_file |-> [required |-> {"path", "old_str", "new_str"},
                    optional |-> {}],
     glob |-> [required |-> {"pattern"}, optional |-> {"path", "limit"}],
     grep |-> [required |-> {"pattern"},
               optional |-> {"path", "include", "limit", "context"}],
     bash |-> [required |-> {"command"}, optional |-> {"timeout"}]]

\* ToolRegistry.get(name) is not None
Registered(name) == name \in DOMAIN REGISTRY

\* tool.execute(**arguments) binds its parameters (otherwise TypeError)
ArgumentsFit(name, arguments) ==
    /\ REGISTRY[name].required \subseteq DOMAIN arguments
    /\ DOMAIN arguments \subseteq
           REGISTRY[name].required \cup REGISTRY[name].optional

\* ToolResult.__str__
ToolResultStr(r) ==
    IF r.success THEN r.output
    ELSE "Error: " \o (IF r.error # None /\ r.error # "" THEN r.error
                       ELSE r.output)

ToolCall(id, name, arguments) ==
    [id |-> id, name |-> name, arguments |-> arguments]

\* json.dumps of an argument mapping, kept as an opaque encoding
json_dumps(x) == [json |-> x]

\* DeepSeekClient.format_assistant_message
format_assistant_message(response) ==
    LET tcs == [k \in 1..Len(response.tool_calls) |->
                  [id |-> response.tool_calls[k].id,
                   type |-> "function",
                   function |->
                     [name |-> response.tool_calls[k].name,
                      arguments |->
                        json_dumps(response.tool_calls[k].arguments)]]]
        truthy == response.content # None /\ response.content # ""
    IN IF truthy /\ Len(tcs) > 0
       THEN [role |-> "assistant", content |-> response.content,
             tool_calls |-> tcs]
       ELSE IF truthy
       THEN [role |-> "assistant", content |-> response.content]
       ELSE IF Len(tcs) > 0
       THEN [role |-> "assistant", tool_calls |-> tcs]
       ELSE [role |-> "assistant"]

\* LLMResponse.has_tool_calls
has_tool_calls(response) == Len(response.tool_calls) > 0

\* the message _process_tool_calls builds for one call
ToolMessage(id, content) ==
    [role |-> "tool", tool_call_id |-> id, content |-> content]

UserMessage(content) == [role |-> "user", content |-> content]

(***************************************************************************)
(* The inputs the collaborators can supply.                                *)
(***************************************************************************)
cmd_ls == <<"l","s">>
cmd_sudo == <<"s","u","d","o"," ","l","s">>
cmd_blank == <<" ">>
path_a == <<"a">>

\* the (name, arguments) pairs the model may request
CallShapes ==
    { [name |-> "read_file", arguments |-> [path |-> path_a]],
      [name |-> "bash", arguments |-> [command |-> cmd_ls]],
      [name |-> "bash", arguments |-> [command |-> cmd_sudo]],
      [name |-> "bash", arguments |-> [command |-> cmd_blank]],
      [name |-> "write_file", arguments |-> [path |-> path_a]],
      [name |-> "nope", arguments |-> <<>>] }

\* the texts of a model reply: absent, empty, or some text
Contents == {None, "", "final"}

\* the answers ui.ask_permission returns
Choices == {"y", "n", "always"}

\* tool.execute has not been called for the current call
NoOutcome == [kind |-> "none"]

\* what tool.execute does when its parameters bind
Outcomes ==
    { [kind |-> "result",
       result |-> [success |-> TRUE, output |-> "out", error |-> None]],
      [kind |-> "raise", e |-> "boom"] }

(***************************************************************************)
(* State.                                                                  *)
(***************************************************************************)
VARIABLES
    trust_mode,         \* PermissionManager.trust_mode
    yolo_mode,          \* PermissionManager.yolo_mode
    session_allowlist,  \* PermissionManager.session_allowlist
    session_denylist,   \* PermissionManager.session_denylist
    messages,           \* ConversationHistory.messages
    max_turns,          \* AgentConfig.max_turns
    entry,              \* which of Agent.run / Agent.chat is executing
    pc,                 \* where the loop stands
    turn,               \* iterations of the for loop started
    tool_calls,         \* the batch _process_tool_calls iterates over
    idx,                \* position of the current call in the batch
    results,            \* the results list of _process_tool_calls
    perm_request,       \* the PermissionRequest of the current call
    choice,             \* the answer ui.ask_permission returned
    outcome,            \* what tool.execute returned or raised
    ret,                \* what run / chat returned or raised
    model_calls,        \* number of client.chat calls made
    executed,           \* ids of the calls tool.execute was called for
    cleared,            \* tool calls of the histories Agent.reset dropped
    files,              \* the file system the file tools act on
    _tools,             \* ToolRegistry._tools, in insertion order
    tree,               \* the files below the base directory of a glob
    last_call,          \* the tool or registry call made last
    tool_result         \* the ToolResult that call returned

vars == <<trust_mode, yolo_mode, session_allowlist, session_denylist,
          messages, max_turns, entry, pc, turn, tool_calls, idx, results,
          perm_request, choice, outcome, ret, model_calls, executed,
          cleared, files, _tools, tree, last_call, tool_result>>

permVars == <<trust_mode, yolo_mode, session_allowlist, session_denylist>>
loopVars == <<messages, max_turns, entry, pc, turn, tool_calls, idx,
              results, choice, outcome, ret, model_calls, executed>>
toolVars == <<files, _tools, tree, last_call, tool_result>>

\* the paths the file tools are called with
FilePaths == {path_a}

\* a path that does not exist
Missing == [kind |-> "missing"]

\* no tool or registry call has been made
NoCall == [op |-> "none"]

\* no ToolResult has been returned
NoResult == [kind |-> "none"]

\* the tools' world before any tool or registry call: no file exists and
\* nothing is registered
ToolsIdle ==
    /\ files = [p \in FilePaths |-> Missing]
    /\ _tools = <<>>
    /\ tree = {}
    /\ last_call = NoCall
    /\ tool_result = NoResult

(***************************************************************************)
(* agent.py: the orchestration loop.                                       *)
(***************************************************************************)
\* Agent.__init__ with an AgentConfig; the mode flags are those of the
\* constructor or of the /trust and /yolo toggles of the interactive loop
Init ==
    /\ trust_mode \in BOOLEAN
    /\ yolo_mode \in BOOLEAN
    /\ session_allowlist = {}
    /\ session_denylist = {}
    /\ messages = <<>>
    /\ max_turns \in 0..MaxTurns
    /\ entry = None
    /\ pc = "idle"
    /\ turn = 0
    /\ tool_calls = <<>>
    /\ idx = 0
    /\ results = <<>>
    /\ perm_request = NoRequest
    /\ choice = None
    /\ outcome = NoOutcome
    /\ ret = None
    /\ model_calls = 0
    /\ executed = <<>>
    /\ cleared = 0
    /\ ToolsIdle

\* the final return statement of run / chat
IncompleteMessage(e) ==
    IF e = "run" THEN "Task incomplete - maximum turns reached."
    ELSE "Response incomplete - maximum turns reached."

\* `for turn in range(self.config.max_turns)`: start the next iteration,
\* which calls client.chat, or leave the loop and return the message
LoopBound_Inclusive(t) == t <= max_turns

LoopBound(t) == t < max_turns

NextIteration(e) ==
    IF LoopBound(turn)
    THEN /\ turn' = turn + 1
         /\ model_calls' = model_calls + 1
         /\ pc' = "awaiting_model"
         /\ ret' = ret
    ELSE /\ pc' = "exhausted"
         /\ ret' = IncompleteMessage(e)
         /\ UNCHANGED <<turn, model_calls>>

\* Agent.run(task) up to its first client.chat call
Run(task) ==
    /\ pc = "idle"
    /\ entry' = "run"
    /\ messages' = Append(messages, UserMessage(task))
    /\ NextIteration("run")
    /\ UNCHANGED <<permVars, max_turns, tool_calls, idx, results,
                   perm_request, choice, outcome, executed>>
    /\ UNCHANGED <<cleared, toolVars>>

\* Agent.chat(message) up to its first client.chat call
Chat(message) ==
    /\ pc = "idle"
    /\ entry' = "chat"
    /\ messages' = IF LoopBound(turn) /\ message # ""
                   THEN Append(messages, UserMessage(message))
                   ELSE messages
    /\ NextIteration("chat")
    /\ UNCHANGED <<permVars, max_turns, tool_calls, idx, results,
                   perm_request, choice, outcome, executed>>
    /\ UNCHANGED <<cleared, toolVars>>

\* what run_turn returns for a reply without tool calls
FinalText(response) == response.content

\* run / chat: `if result is not None: return result`
IsFinal(result) == result # None

\* run_turn after client.chat returned response (agent.py:155-170) and
\* the loop of run / chat around it
ModelReply(response) ==
    /\ pc = "awaiting_model"
    /\ messages' = Append(messages, format_assistant_message(response))
    /\ IF ~has_tool_calls(response)
       THEN /\ IF IsFinal(FinalText(response))
               THEN /\ pc' = "done"
                    /\ ret' = FinalText(response)
                    /\ UNCHANGED <<turn, model_calls>>
               ELSE NextIteration(entry)
            /\ UNCHANGED <<tool_calls, idx, results>>
       ELSE /\ tool_calls' = response.tool_calls
            /\ idx' = 1
            /\ results' = <<>>
            /\ pc' = "executing_tools"
            /\ UNCHANGED <<turn, model_calls, ret>>
    /\ UNCHANGED <<permVars, max_turns, entry, perm_request, choice,
                   outcome, executed>>
    /\ UNCHANGED <<cleared, toolVars>>

\* client.chat raises: the exception leaves run_turn and run / chat
ModelError ==
    /\ pc = "awaiting_model"
    /\ pc' = "failed"
    /\ ret' = "TransportError"
    /\ UNCHANGED <<permVars, messages, max_turns, entry, turn, tool_calls,
                   idx, results, perm_request, choice, outcome,
                   model_calls, executed>>
    /\ UNCHANGED <<cleared, toolVars>>

\* the result inserted at the front of the list
AppendResult_Front(rs, m) == <<m>> \o rs

\* results.append(...) in _process_tool_calls
AppendResult(rs, m) == Append(rs, m)

\* _process_tool_calls that returns after the result of the current call,
\* whatever calls are left in the batch
Record_ReturnsEarly(content) ==
    LET r == AppendResult(results, ToolMessage(tool_calls[idx].id, content))
    IN /\ results' = r
       /\ idx' = idx
       /\ messages' = messages \o r
       /\ NextIteration(entry)

\* _process_tool_calls appends the result of the current call; after the
\* last call run_turn adds the results to the history and returns None,
\* and the loop of run / chat goes on
Record(content) ==
    LET r == AppendResult(results, ToolMessage(tool_calls[idx].id, content))
    IN /\ results' = r
       /\ IF idx < Len(tool_calls)
          THEN /\ idx' = idx + 1
               /\ pc' = "executing_tools"
               /\ UNCHANGED <<messages, turn, model_calls, ret>>
          ELSE /\ idx' = idx
               /\ messages' = messages \o r
               /\ NextIteration(entry)

\* tool.execute(**tool_call.arguments) is called
CallExecute ==
    /\ pc' = "tool_running"
    /\ executed' = Append(executed, tool_calls[idx].id)
    /\ UNCHANGED <<messages, turn, tool_calls, idx, results, ret,
                   model_calls>>

\* _get_permission without the DENY branch: a denied request is prompted
PermissionGate_NoDeny(request) ==
    IF request.level = AUTO THEN "allowed" ELSE "prompt"

\* _get_permission before the prompt: AUTO is allowed, DENY is refused,
\* ASK prompts the human
PermissionGate(request) ==
    IF request.level = AUTO THEN "allowed"
    ELSE IF request.level = DENY THEN "refused"
    ELSE "prompt"

\* the result _execute_tool returns when _get_permission is False
DeniedResult(request) == "Permission denied by user."

\* _execute_tool that asks the Permission Engine before it looks the
\* tool up
CheckTool_PermissionFirst ==
    /\ pc = "executing_tools"
    /\ LET tc == tool_calls[idx]
       IN IF ~Registered(tc.name)
          THEN /\ Record("Error: Unknown tool '" \o tc.name \o "'")
               /\ perm_request' = check_permission(tc.name, tc.arguments,
                                      trust_mode, yolo_mode,
                                      session_allowlist, session_denylist)
               /\ UNCHANGED <<executed, tool_calls>>
          ELSE LET request == check_permission(tc.name, tc.arguments,
                                  trust_mode, yolo_mode,
                                  session_allowlist, session_denylist)
               IN /\ perm_request' = request
                  /\ CASE PermissionGate(request) = "allowed" ->
                            CallExecute
                       [] PermissionGate(request) = "refused" ->
                            /\ Record(DeniedResult(request))
                            /\ UNCHANGED <<executed, tool_calls>>
                       [] PermissionGate(request) = "prompt" ->
                            /\ pc' = "awaiting_permission"
                            /\ UNCHANGED <<messages, turn, tool_calls, idx,
                                           results, ret, model_calls,
                                           executed>>
    /\ choice' = None
    /\ outcome' = NoOutcome
    /\ UNCHANGED <<permVars, max_turns, entry>>
    /\ UNCHANGED <<cleared, toolVars>>

\* _execute_tool for the current call, up to the prompt or the execution
CheckTool ==
    /\ pc = "executing_tools"
    /\ LET tc == tool_calls[idx]
       IN IF ~Registered(tc.name)
          THEN /\ Record("Error: Unknown tool '" \o tc.name \o "'")
               /\ perm_request' = NoRequest
               /\ UNCHANGED <<executed, tool_calls>>
          ELSE LET request == check_permission(tc.name, tc.arguments,
                                  trust_mode, yolo_mode,
                                  session_allowlist, session_denylist)
               IN /\ perm_request' = request
                  /\ CASE PermissionGate(request) = "allowed" ->
                            CallExecute
                       [] PermissionGate(request) = "refused" ->
                            /\ Record(DeniedResult(request))
                            /\ UNCHANGED <<executed, tool_calls>>
                       [] PermissionGate(request) = "prompt" ->
                            /\ pc' = "awaiting_permission"
                            /\ UNCHANGED <<messages, turn, tool_calls, idx,
                                           results, ret, model_calls,
                                           executed>>
    /\ choice' = None
    /\ outcome' = NoOutcome
    /\ UNCHANGED <<permVars, max_turns, entry>>
    /\ UNCHANGED <<cleared, toolVars>>

\* _get_permission, answer 'always': cmd.split()[0] raises IndexError
AlwaysRaises(request) ==
    /\ request.tool_name = "bash"
    /\ Len(Get(request.tool_input, "command")) > 0
    /\ SplitIsEmpty(Get(request.tool_input, "command"))

\* _get_permission, answer 'always': the rules added to the allowlist
AlwaysRule(request) ==
    IF request.tool_name = "bash"
    THEN LET cmd == Get(request.tool_input, "command")
             cmd_prefix == IF Len(cmd) > 0 THEN SplitFirst(cmd) ELSE <<>>
         IN IF Len(cmd_prefix) > 0
            THEN {BASH_RULE \o cmd_prefix \o <<"*">> \o RULE_END}
            ELSE {}
    ELSE IF request.tool_name \in {"write_file", "edit_file"}
    THEN {WRITE_RULE \o Get(request.tool_input, "path") \o RULE_END}
    ELSE {}

\* _get_permission after the prompt: is the call allowed
Allowed(c) == c = "y" \/ c = "always"

\* _get_permission that records the rule for the answer y as well
HumanAnswer_YesRecords(c) ==
    /\ pc = "awaiting_permission"
    /\ IF c = "always" /\ AlwaysRaises(perm_request)
       THEN /\ pc' = "failed"
            /\ ret' = "IndexError"
            /\ UNCHANGED <<session_allowlist, messages, turn, tool_calls,
                           idx, results, model_calls, executed>>
       ELSE IF Allowed(c)
       THEN /\ session_allowlist' =
                   IF Allowed(c)
                   THEN session_allowlist \cup AlwaysRule(perm_request)
                   ELSE session_allowlist
            /\ CallExecute
       ELSE /\ Record(DeniedResult(perm_request))
            /\ UNCHANGED <<session_allowlist, executed, tool_calls>>
    /\ choice' = c
    /\ UNCHANGED <<trust_mode, yolo_mode, session_denylist, max_turns,
                   entry, perm_request, outcome>>
    /\ UNCHANGED <<cleared, toolVars>>

\* ui.ask_permission returned c (agent.py:63-83), then _execute_tool
HumanAnswer(c) ==
    /\ pc = "awaiting_permission"
    /\ IF c = "always" /\ AlwaysRaises(perm_request)
       THEN /\ pc' = "failed"
            /\ ret' = "IndexError"
            /\ UNCHANGED <<session_allowlist, messages, turn, tool_calls,
                           idx, results, model_calls, executed>>
       ELSE IF Allowed(c)
       THEN /\ session_allowlist' =
                   IF c = "always"
                   THEN session_allowlist \cup AlwaysRule(perm_request)
                   ELSE session_allowlist
            /\ CallExecute
       ELSE /\ Record(DeniedResult(perm_request))
            /\ UNCHANGED <<session_allowlist, executed, tool_calls>>
    /\ choice' = c
    /\ UNCHANGED <<trust_mode, yolo_mode, session_denylist, max_turns,
                   entry, perm_request, outcome>>
    /\ UNCHANGED <<cleared, toolVars>>

\* the string _execute_tool returns for what tool.execute did
ExecuteResult(o) ==
    IF o.kind = "result" THEN ToolResultStr(o.result)
    ELSE "Error executing tool: " \o o.e

\* _execute_tool without its try / except: a fault of the tool leaves
\* the loop
ToolReturn_NoCatch(o) ==
    /\ pc = "tool_running"
    /\ IF ArgumentsFit(tool_calls[idx].name, tool_calls[idx].arguments)
       THEN o \in Outcomes
       ELSE o = [kind |-> "raise", e |-> "TypeError"]
    /\ outcome' = o
    /\ IF o.kind = "raise"
       THEN /\ pc' = "failed"
            /\ ret' = o.e
            /\ UNCHANGED <<messages, turn, idx, results, model_calls>>
       ELSE Record(ExecuteResult(o))
    /\ UNCHANGED <<permVars, max_turns, entry, tool_calls, perm_request,
                   choice, executed>>
    /\ UNCHANGED <<cleared, toolVars>>

\* tool.execute returned or raised (agent.py:101-105)
ToolReturn(o) ==
    /\ pc = "tool_running"
    /\ IF ArgumentsFit(tool_calls[idx].name, tool_calls[idx].arguments)
       THEN o \in Outcomes
       ELSE o = [kind |-> "raise", e |-> "TypeError"]
    /\ outcome' = o
    /\ Record(ExecuteResult(o))
    /\ UNCHANGED <<permVars, max_turns, entry, tool_calls, perm_request,
                   choice, executed>>
    /\ UNCHANGED <<cleared, toolVars>>

\* the number of tool calls the model has requested so far
RECURSIVE RequestedCalls(_)
RequestedCalls(ms) ==
    IF Len(ms) = 0 THEN 0
    ELSE (IF "tool_calls" \in DOMAIN Head(ms)
          THEN Len(Head(ms).tool_calls) ELSE 0) + RequestedCalls(Tail(ms))

\* the replies client.chat can return in the current round-trip; the id
\* of a call is unique: the number of the request and its position
Responses ==
    IF pc # "awaiting_model" THEN {} ELSE
    { [content |-> c, tool_calls |-> <<>>] : c \in Contents }
    \cup
    UNION { { [content |-> None,
               tool_calls |-> [k \in 1..n |->
                                 ToolCall(<<model_calls, k>>, f[k].name,
                                          f[k].arguments)]] :
              f \in [1..n -> CallShapes] } :
            n \in { m \in 1..MaxBatch :
                      RequestedCalls(messages) + cleared + m
                          <= MaxCalls } }

Next ==
    \/ \E task \in {"task"} : Run(task)
    \/ \E message \in {"hello"} : Chat(message)
    \/ \E response \in Responses : ModelReply(response)
    \/ ModelError
    \/ CheckTool
    \/ \E c \in Choices : HumanAnswer(c)
    \/ \E o \in Outcomes \cup {[kind |-> "raise", e |-> "TypeError"]} :
          ToolReturn(o)

Spec == Init /\ [][Next]_vars

(***************************************************************************)
(* cli.py: the `clear` command of interactive_loop, between two tasks.     *)
(***************************************************************************)
\* Agent.reset building a new PermissionManager as well
Reset_NewManager ==
    /\ pc \in {"idle", "done", "exhausted"}
    /\ messages' = <<>>
    /\ session_allowlist' = {}
    /\ session_denylist' = {}
    /\ cleared' = cleared + RequestedCalls(messages)
    /\ pc' = "idle"
    /\ entry' = None
    /\ turn' = 0
    /\ tool_calls' = <<>>
    /\ idx' = 0
    /\ results' = <<>>
    /\ perm_request' = NoRequest
    /\ choice' = None
    /\ outcome' = NoOutcome
    /\ ret' = None
    /\ model_calls' = 0
    /\ executed' = <<>>
    /\ UNCHANGED <<trust_mode, yolo_mode, max_turns, toolVars>>

\* Agent.reset, called once the previous task has returned: the history
\* is replaced by a new ConversationHistory; the locals of the returned
\* run / chat call are gone and the loop waits for the next input
Reset ==
    /\ pc \in {"idle", "done", "exhausted"}
    /\ messages' = <<>>
    /\ cleared' = cleared + RequestedCalls(messages)
    /\ pc' = "idle"
    /\ entry' = None
    /\ turn' = 0
    /\ tool_calls' = <<>>
    /\ idx' = 0
    /\ results' = <<>>
    /\ perm_request' = NoRequest
    /\ choice' = None
    /\ outcome' = NoOutcome
    /\ ret' = None
    /\ model_calls' = 0
    /\ executed' = <<>>
    /\ UNCHANGED <<permVars, max_turns, toolVars>>

SessionNext ==
    \/ \E task \in {"task"} : Run(task)
    \/ \E message \in {"hello"} : Chat(message)
    \/ \E response \in Responses : ModelReply(response)
    \/ ModelError
    \/ CheckTool
    \/ \E c \in Choices : HumanAnswer(c)
    \/ \E o \in Outcomes \cup {[kind |-> "raise", e |-> "TypeError"]} :
          ToolReturn(o)
    \/ Reset

SessionSpec == Init /\ [][SessionNext]_vars

(***************************************************************************)
(* The Permission Engine on its own: the public operations of              *)
(* PermissionManager applied to inputs of a bounded set.                   *)
(***************************************************************************)
cmd_rm_root == <<"r","m"," ","-","r","f"," ","/">>
cmd_RM_ROOT == <<"R","m"," ","-","R","F"," ","/">>
cmd_echo_rm == <<"l","s",";","r","m"," ","-","r","f"," ","/","*">>
cmd_dd == <<"d","d"," ","i","f","=","/","d","e","v","/","z","e","r","o",
            " ","o","f","=","/","d","e","v","/","s","d","a">>
cmd_chmod == <<"c","h","m","o","d"," "," ","7","7","7"," ","a">>
cmd_pipe_sh == <<"l","s"," ","|","S","h","\n">>
cmd_mkfs == <<"m","k","f","s",".","x">>
cmd_sudo_bare == <<"s","u","d","o">>
cmd_rm_file == <<"r","m"," ","a">>

PermCommands ==
    {cmd_ls, cmd_sudo, cmd_blank, cmd_rm_root, cmd_RM_ROOT, cmd_echo_rm,
     cmd_dd, cmd_chmod, cmd_pipe_sh, cmd_mkfs, cmd_sudo_bare, cmd_rm_file}

PermCalls ==
    { [name |-> "bash", arguments |-> [command |-> c]] : c \in PermCommands }
    \cup
    { [name |-> "bash", arguments |-> <<>>],
      [name |-> "read_file", arguments |-> [path |-> path_a]],
      [name |-> "write_file", arguments |-> [path |-> path_a]],
      [name |-> "nope", arguments |-> <<>>] }

\* session rules: bash(*), bash(sudo*), bash(r?*), bash(dd*), write(a)
PermRules ==
    { BASH_RULE \o <<"*">> \o RULE_END,
      BASH_RULE \o <<"s","u","d","o","*">> \o RULE_END,
      BASH_RULE \o <<"r","?","*">> \o RULE_END,
      BASH_RULE \o <<"d","d","*">> \o RULE_END,
      WRITE_RULE \o path_a \o RULE_END }

\* PermissionManager.__init__
PermInit ==
    /\ trust_mode \in BOOLEAN
    /\ yolo_mode \in BOOLEAN
    /\ session_allowlist = {}
    /\ session_denylist = {}
    /\ perm_request = NoRequest
    /\ messages = <<>>
    /\ max_turns = 0
    /\ entry = None
    /\ pc = "idle"
    /\ turn = 0
    /\ tool_calls = <<>>
    /\ idx = 0
    /\ results = <<>>
    /\ choice = None
    /\ outcome = NoOutcome
    /\ ret = None
    /\ model_calls = 0
    /\ executed = <<>>
    /\ cleared = 0
    /\ ToolsIdle

\* PermissionManager.add_to_allowlist
add_to_allowlist(pattern) ==
    /\ perm_request.level = None
    /\ Cardinality(session_allowlist) + Cardinality(session_denylist)
           < MaxRules
    /\ session_allowlist' = session_allowlist \cup {pattern}
    /\ UNCHANGED <<trust_mode, yolo_mode, session_denylist, perm_request,
                   loopVars>>
    /\ UNCHANGED <<cleared, toolVars>>

\* PermissionManager.add_to_denylist
add_to_denylist(pattern) ==
    /\ perm_request.level = None
    /\ Cardinality(session_allowlist) + Cardinality(session_denylist)
           < MaxRules
    /\ session_denylist' = session_denylist \cup {pattern}
    /\ UNCHANGED <<trust_mode, yolo_mode, session_allowlist, perm_request,
                   loopVars>>
    /\ UNCHANGED <<cleared, toolVars>>

\* a call of PermissionManager.check_permission on the rules recorded so
\* far; its result is kept
CheckPermission(tool_name, tool_input) ==
    /\ perm_request.level = None
    /\ perm_request' = check_permission(tool_name, tool_input, trust_mode,
                           yolo_mode, session_allowlist, session_denylist)
    /\ UNCHANGED <<permVars, loopVars>>
    /\ UNCHANGED <<cleared, toolVars>>

PermNext ==
    \/ \E pattern \in PermRules : add_to_allowlist(pattern)
    \/ \E pattern \in PermRules : add_to_denylist(pattern)
    \/ \E call \in PermCalls : CheckPermission(call.name, call.arguments)

PermSpec == PermInit /\ [][PermNext]_vars

(***************************************************************************)
(* Properties of the Permission Engine (checked under PermSpec).           *)
(***************************************************************************)
\* the command of a bash request
CommandOf(request) == Get(request.tool_input, "command")

\* the text contains, compared case-insensitively, a blocked literal
HasBlockedLiteral(command) ==
    \E k \in 1..Len(BLOCKED_COMMANDS) :
        Contains(Lower(command), BLOCKED_COMMANDS[k].lit)

\* the text matches a dangerous-shape pattern
MatchesDangerous(command) ==
    \E k \in 1..Len(DANGEROUS_BASH_PATTERNS) :
        re_search(DANGEROUS_BASH_PATTERNS[k].re, command, TRUE)

\* C1: a bash command that contains a blocked literal (case-insensitive)
\* is classified DENY by check_permission in normal, trust and bypass-all
\* mode, whatever the session allow and deny sets contain.
C1_BlockedLiteralDenied ==
    (/\ perm_request.level # None
     /\ perm_request.tool_name = "bash"
     /\ HasBlockedLiteral(CommandOf(perm_request)))
    => perm_request.level = DENY

\* C1 witness: in bypass-all mode, with a session allow rule that matches
\* the command, a command holding only a blocked literal was classified.
C1_Witness ==
    /\ perm_request.level # None
    /\ perm_request.tool_name = "bash"
    /\ CommandOf(perm_request) = cmd_dd
    /\ yolo_mode
    /\ RuleMatches(session_allowlist, BASH_RULE, cmd_dd)
    /\ perm_request.level = DENY

\* C2: a bash command that matches a dangerous-shape pattern is DENY for
\* every combination of trust_mode and yolo_mode and every content of the
\* session allow set.
C2_DangerousDenied ==
    (/\ perm_request.level # None
     /\ perm_request.tool_name = "bash"
     /\ MatchesDangerous(CommandOf(perm_request)))
    => perm_request.level = DENY

\* C2 witness: in trust mode, with the allow rule bash(sudo*) recorded, the
\* dangerous and not blocked command `sudo ls` was classified.
C2_Witness ==
    /\ perm_request.level # None
    /\ perm_request.tool_name = "bash"
    /\ CommandOf(perm_request) = cmd_sudo
    /\ ~HasBlockedLiteral(cmd_sudo)
    /\ trust_mode
    /\ BASH_RULE \o <<"s","u","d","o","*">> \o RULE_END \in session_allowlist
    /\ perm_request.level = DENY

(***************************************************************************)
(* Properties of the orchestration loop (checked under Spec).              *)
(***************************************************************************)
Terminal == pc \in {"done", "exhausted", "failed"}
InBatch == pc \in {"executing_tools", "awaiting_permission", "tool_running"}
Range(f) == { f[k] : k \in DOMAIN f }
Last(q) == q[Len(q)]
RequestsTools(m) == m.role = "assistant" /\ "tool_calls" \in DOMAIN m
DENIED_BY_USER == "Permission denied by user."

\* C3: tool.execute is called for a call only if its level was AUTO, or
\* ASK with the answer y or always; when the level is DENY, or ASK with
\* the answer n, execute is not called for the call and a result is
\* recorded for it; a call with the refusal result was never executed.
C3_ExecuteOnlyWhenPermitted ==
    /\ [](\A k \in 1..Len(results) :
            results[k].content = DENIED_BY_USER
                => results[k].tool_call_id \notin Range(executed))
    /\ [][InBatch =>
          LET tc == tool_calls[idx]
              req == check_permission(tc.name, tc.arguments, trust_mode,
                         yolo_mode, session_allowlist, session_denylist)
              refused ==
                 \/ pc = "executing_tools" /\ Registered(tc.name)
                                           /\ req.level = DENY
                 \/ pc = "awaiting_permission" /\ perm_request.level = ASK
                                               /\ choice' = "n"
          IN /\ executed' # executed =>
                  /\ executed' = Append(executed, tc.id)
                  /\ \/ pc = "executing_tools" /\ req.level = AUTO
                     \/ /\ pc = "awaiting_permission"
                        /\ perm_request.level = ASK
                        /\ choice' \in {"y", "always"}
             /\ refused =>
                  /\ executed' = executed
                  /\ tc.id \notin Range(executed)
                  /\ Len(results') = Len(results) + 1
                  /\ Last(results').role = "tool"
                  /\ Last(results').tool_call_id = tc.id
       ]_vars

\* C3 witness: in one batch the first call was executed and the second,
\* classified DENY, got a result without being executed.
C3_Witness ==
    /\ Len(results) = 2
    /\ results[1].tool_call_id \in Range(executed)
    /\ perm_request.level = DENY
    /\ results[2].tool_call_id = tool_calls[2].id
    /\ results[2].tool_call_id \notin Range(executed)

\* every reply of the model so far requested a tool call
AllRepliesRequestTools ==
    \A k \in 1..Len(messages) :
        messages[k].role = "assistant" => RequestsTools(messages[k])

\* C4: with a model that requests a tool call in every reply (and whose
\* calls all return), Agent.run with max_turns = N ends after exactly N
\* model calls with 'Task incomplete - maximum turns reached.'
C4_ExactlyNRoundTrips ==
    (/\ entry = "run"
     /\ Terminal
     /\ AllRepliesRequestTools
     /\ ret # "TransportError")
    => /\ pc = "exhausted"
       /\ ret = "Task incomplete - maximum turns reached."
       /\ model_calls = max_turns

\* the text of the reply the history ends with
LastReplyText ==
    IF "content" \in DOMAIN Last(messages) THEN Last(messages).content
    ELSE ""

TurnSpan == 3 * MaxBatch + 1

Progress ==
    CASE pc = "idle" -> 0
      [] pc = "awaiting_model" -> turn * TurnSpan
      [] pc = "executing_tools" -> turn * TurnSpan + 3 * (idx - 1) + 1
      [] pc = "awaiting_permission" -> turn * TurnSpan + 3 * (idx - 1) + 2
      [] pc = "tool_running" -> turn * TurnSpan + 3 * (idx - 1) + 3
      [] Terminal -> (max_turns + 2) * TurnSpan

C6_NoToolReplyEndsTask ==
    (/\ Len(messages) > 0
     /\ Last(messages).role = "assistant"
     /\ ~RequestsTools(Last(messages)))
    => /\ pc = "done"
       /\ ret = LastReplyText

\* every tool-result message follows an assistant message that requested
\* its id
EveryToolResultRequested ==
    \A p \in 1..Len(messages) :
        messages[p].role = "tool" =>
            \E q \in 1..(p - 1) :
                /\ RequestsTools(messages[q])
                /\ \E j \in 1..Len(messages[q].tool_calls) :
                      messages[q].tool_calls[j].id = messages[p].tool_call_id

\* the history ms ends with the assistant message carrying the calls tcs
\* followed by one tool-result message per call, in the order of the calls
EndsWithBatch(ms, tcs) ==
    LET k == Len(tcs)
        n == Len(ms)
    IN /\ n >= k + 1
       /\ RequestsTools(ms[n - k])
       /\ Len(ms[n - k].tool_calls) = k
       /\ \A j \in 1..k :
            /\ ms[n - k].tool_calls[j].id = tcs[j].id
            /\ ms[n - k + j].role = "tool"
            /\ ms[n - k + j].tool_call_id = tcs[j].id

\* C7: when a round-trip with k >= 1 requested calls completes, the
\* history ends with the assistant message carrying the k calls followed
\* by exactly k tool-result messages with the ids of the calls in order;
\* and every tool-result message follows an assistant message that
\* requested its id.
C7_ResultsMatchRequests ==
    /\ []EveryToolResultRequested
    /\ [][(InBatch /\ pc' \in {"awaiting_model", "exhausted"})
            => EndsWithBatch(messages', tool_calls)]_vars

\* C7 witness: a completed round-trip of two calls, the first ended by a
\* fault of the tool and the second refused.
C7_Witness ==
    /\ pc \in {"awaiting_model", "exhausted"}
    /\ Len(messages) >= 3
    /\ Len(tool_calls) = 2
    /\ EndsWithBatch(messages, tool_calls)
    /\ messages[Len(messages) - 1].content = "Error executing tool: boom"
    /\ Last(messages).content = DENIED_BY_USER

\* the ways a tool result can report a reason
ReportsReason(content, reason) ==
    content \in {reason, "Blocked: " \o reason, "Error: " \o reason,
                 "Error: Blocked: " \o reason,
                 "Permission denied: " \o reason}

\* C8: the result recorded for a call classified DENY reports the reason
\* of its PermissionRequest.
C8_DenyResultReportsReason ==
    (/\ perm_request.level = DENY
     /\ Len(results) > 0
     /\ pc # "idle")
    => ReportsReason(Last(results).content, perm_request.reason)

\* C9: when tool.execute raises (as it does when its parameters do not
\* bind), the loop does not fail: the result 'Error executing tool: <e>'
\* is recorded for the call, then the next call of the batch is taken, or
\* after the last call the results are added to the history and the next
\* model call is made if the turn budget allows.
C9_ToolFaultIsLocal ==
    [][pc = "tool_running" =>
        /\ ~ArgumentsFit(tool_calls[idx].name, tool_calls[idx].arguments)
              => outcome'.kind = "raise"
        /\ outcome'.kind = "raise" =>
              /\ pc' # "failed"
              /\ results' = Append(results,
                     ToolMessage(tool_calls[idx].id,
                                 "Error executing tool: " \o outcome'.e))
              /\ IF idx < Len(tool_calls)
                 THEN /\ pc' = "executing_tools"
                      /\ idx' = idx + 1
                      /\ messages' = messages
                      /\ model_calls' = model_calls
                 ELSE /\ messages' = messages \o results'
                      /\ IF turn < max_turns
                         THEN /\ pc' = "awaiting_model"
                              /\ model_calls' = model_calls + 1
                         ELSE pc' = "exhausted"
    ]_vars

\* C9 witness: the first call of a batch of two raised, the second call
\* was processed and the next model call has been made.
C9_Witness ==
    /\ pc = "awaiting_model"
    /\ model_calls = 2
    /\ Len(tool_calls) = 2
    /\ EndsWithBatch(messages, tool_calls)
    /\ messages[Len(messages) - 1].content = "Error executing tool: TypeError"

\* C10: the task fails only in a step where client.chat fails; that step
\* executes no tool and appends no message.
C10_OnlyModelFailureFatal ==
    [][pc' = "failed" =>
        /\ pc = "awaiting_model"
        /\ ret' = "TransportError"
        /\ messages' = messages
        /\ results' = results
        /\ executed' = executed
    ]_vars

(***************************************************************************)
(* The answer 'always' and the session rules across a reset.               *)
(***************************************************************************)
\* the allow rule Agent._get_permission is said to record for a request
ExpectedAlwaysRule(request) ==
    IF request.tool_name = "bash"
    THEN BASH_RULE \o SplitFirst(CommandOf(request)) \o <<"*">> \o RULE_END
    ELSE WRITE_RULE \o Get(request.tool_input, "path") \o RULE_END

\* C11: when the human answers 'always' to an ASK prompt, exactly one
\* pattern is added to the session allow set and the call is then executed
\* as allowed; for a bash call with a non-empty command the pattern is the
\* allow rule of the command's first whitespace-separated token followed
\* by `*`, for a write_file or edit_file call the write rule of its path.
C11_AlwaysRecordsRuleThenExecutes ==
    [][(/\ pc = "awaiting_permission"
        /\ perm_request.level = ASK
        /\ choice' = "always"
        /\ \/ /\ perm_request.tool_name = "bash"
              /\ Len(CommandOf(perm_request)) > 0
           \/ perm_request.tool_name \in {"write_file", "edit_file"})
       => /\ pc' = "tool_running"
          /\ executed' = Append(executed, tool_calls[idx].id)
          /\ perm_request.tool_name = "bash"
                => ~SplitIsEmpty(CommandOf(perm_request))
          /\ session_allowlist' \ session_allowlist
                = {ExpectedAlwaysRule(perm_request)}
    ]_vars

\* a step of Agent.reset that had something to drop or to leave
ResetStep == pc' = "idle" /\ (pc # "idle" \/ messages # <<>>)

\* the current call is covered by a session allow rule and by none of the
\* refusals that precede the rules in check_permission
CoveredByAllowRule(tc) ==
    \/ /\ tc.name = "bash"
       /\ RuleMatches(session_allowlist, BASH_RULE,
                      Get(tc.arguments, "command"))
       /\ ~HasBlockedLiteral(Strip(Get(tc.arguments, "command")))
       /\ ~MatchesDangerous(Get(tc.arguments, "command"))
    \/ /\ tc.name \in {"write_file", "edit_file"}
       /\ RuleMatches(session_allowlist, WRITE_RULE,
                      Get(tc.arguments, "path"))

\* C12: Agent.reset replaces the history by an empty one and leaves the
\* session allow set, the session deny set and the mode flags as they
\* were; a call covered by an allow rule is approved automatically also
\* after a reset.
C12_ResetKeepsRules ==
    [][/\ ResetStep =>
            /\ messages' = <<>>
            /\ UNCHANGED <<session_allowlist, session_denylist,
                           trust_mode, yolo_mode>>
       /\ (/\ cleared > 0
           /\ pc = "executing_tools"
           /\ Registered(tool_calls[idx].name)
           /\ CoveredByAllowRule(tool_calls[idx]))
          => /\ perm_request'.level = AUTO
             /\ pc' = "tool_running"
    ]_vars

\* C12 witness: in normal mode, after a reset, the only call of the new
\* conversation is a bash call that was approved without a prompt: by
\* the rule an 'always' answer recorded before the reset.
C12_Witness ==
    /\ cleared > 0
    /\ ~trust_mode /\ ~yolo_mode
    /\ RequestedCalls(messages) = 1
    /\ pc = "tool_running"
    /\ perm_request.tool_name = "bash"
    /\ perm_request.level = AUTO
    /\ choice = None
    /\ session_allowlist # {}

\* C13: immediately after Agent.reset the session allow set and the
\* session deny set are both empty.
C13_ResetClearsRules ==
    [][ResetStep => session_allowlist' = {} /\ session_denylist' = {}]_vars

(***************************************************************************)
(* tools/base.py: ToolResult. Texts the tools build are sequences of       *)
(* characters; an optional text is <<>> for None and <<text>> otherwise.   *)
(***************************************************************************)
\* longest text drawn as an input of a tool
MaxLen == 3

\* the texts over an alphabet, up to a length
RECURSIVE TextsUpTo(_, _)
TextsUpTo(alphabet, n) ==
    IF n = 0 THEN {<<>>}
    ELSE LET shorter == TextsUpTo(alphabet, n - 1)
         IN shorter \cup { Append(t, c) : t \in shorter, c \in alphabet }

DIGITS == <<"0","1","2","3","4","5","6","7","8","9">>

\* str(n) / f"{n}" for a natural number
RECURSIVE Dec(_)
Dec(n) == IF n < 10 THEN <<DIGITS[n + 1]>>
          ELSE Dec(n \div 10) \o <<DIGITS[(n % 10) + 1]>>

\* sep.join(parts)
RECURSIVE Join(_, _)
Join(parts, sep) ==
    IF Len(parts) = 0 THEN <<>>
    ELSE IF Len(parts) = 1 THEN parts[1]
    ELSE parts[1] \o sep \o Join(Tail(parts), sep)

NoText == <<>>
SomeText(t) == <<t>>

\* the truth value of an optional text: None and "" are false
Truthy(opt) == opt # NoText /\ opt[1] # <<>>

ToolResult(success, output, error) ==
    [success |-> success, output |-> output, error |-> error]

ERROR_PREFIX ==
    <<"E","r","r","o","r",":"," ">>

\* ToolResult.__str__ on a result whose texts are character sequences
ToolResult__str__(r) ==
    IF r.success THEN r.output
    ELSE ERROR_PREFIX \o (IF Truthy(r.error) THEN r.error[1] ELSE r.output)

(***************************************************************************)
(* tools/bash_tool.py: BashTool.execute.                                   *)
(***************************************************************************)
BLOCKED_PATTERNS == <<
    <<"r","m"," ","-","r","f"," ","/">>,
    <<"r","m"," ","-","r","f"," ","/","*">>,
    <<":","(",")","{"," ",":","|",":","&"," ","}",";",":">>,
    <<">"," ","/","d","e","v","/","s","d","a">>,
    <<"d","d"," ","i","f","=","/","d","e","v","/","z","e","r","o"," ","o","f","=","/","d","e","v","/">>,
    <<"m","k","f","s",".">> >>

\* is_blocked without command.lower()
is_blocked_CaseSensitive(command) ==
    \E k \in 1..Len(BLOCKED_PATTERNS) :
        Contains(command, BLOCKED_PATTERNS[k])

\* BashTool.is_blocked
is_blocked(command) ==
    \E k \in 1..Len(BLOCKED_PATTERNS) :
        Contains(Lower(command), BLOCKED_PATTERNS[k])

BLOCKED_FOR_SAFETY ==
    <<"T","h","i","s"," ","c","o","m","m","a","n","d"," ","i","s"," ","b",
      "l","o","c","k","e","d"," ","f","o","r"," ","s","a","f","e","t","y",
      " ","r","e","a","s","o","n","s",".">>
TIMED_OUT ==
    <<"C","o","m","m","a","n","d"," ","t","i","m","e","d"," ","o","u","t",
      " ","a","f","t","e","r"," ","1","2","0"," ","s","e","c","o","n","d",
      "s">>
EXITED_WITH_CODE ==
    <<"C","o","m","m","a","n","d"," ","e","x","i","t","e","d"," ","w","i",
      "t","h"," ","c","o","d","e"," ">>
NO_OUTPUT ==
    <<"(","n","o"," ","o","u","t","p","u","t",")">>
TRUNCATED_1 ==
    <<"\n",".",".","."," ","(","o","u","t","p","u","t"," ","t","r","u","n",
      "c","a","t","e","d",","," ">>
TRUNCATED_2 ==
    <<" ","t","o","t","a","l"," ","c","h","a","r","s",")">>
PROMPT_ECHO ==
    <<"$"," ">>
BOOM ==
    <<"b","o","o","m">>

\* the output limit of BashTool.execute
max_len == 50000

\* what subprocess.run does with the command: it completes with a return
\* code and the two captured streams, times out, or raises
Procs ==
    { [kind |-> "exit", returncode |-> rc, stdout |-> out, stderr |-> err] :
        rc \in 0..2,
        out \in TextsUpTo({"o", "\n"}, MaxLen),
        err \in {<<>>, <<"e">>} }
    \cup {[kind |-> "timeout"], [kind |-> "raise", e |-> BOOM]}

\* BashTool.execute that reports success whatever the return code is
BashExecute_AnyCodeSucceeds(command, proc) ==
    IF is_blocked(command)
    THEN ToolResult(FALSE, <<>>, SomeText(BLOCKED_FOR_SAFETY))
    ELSE IF proc.kind = "timeout"
    THEN ToolResult(FALSE, <<>>, SomeText(TIMED_OUT))
    ELSE IF proc.kind = "raise"
    THEN ToolResult(FALSE, <<>>, SomeText(proc.e))
    ELSE LET output_parts ==
                 (IF proc.stdout # <<>> THEN <<proc.stdout>> ELSE <<>>)
                 \o (IF proc.stderr # <<>> THEN <<proc.stderr>> ELSE <<>>)
             joined == Strip(Join(output_parts, <<"\n">>))
             output ==
                 IF Len(joined) > max_len
                 THEN SubSeq(joined, 1, max_len) \o TRUNCATED_1
                          \o Dec(Len(joined)) \o TRUNCATED_2
                 ELSE joined
             echo == PROMPT_ECHO \o command \o <<"\n">>
         IN IF proc.returncode >= 0
            THEN ToolResult(TRUE,
                     IF output # <<>> THEN echo \o output
                     ELSE echo \o NO_OUTPUT,
                     NoText)
            ELSE ToolResult(FALSE, echo \o output,
                     SomeText(EXITED_WITH_CODE \o Dec(proc.returncode)))

\* BashTool.execute(command) when subprocess.run behaves as proc
BashExecute(command, proc) ==
    IF is_blocked(command)
    THEN ToolResult(FALSE, <<>>, SomeText(BLOCKED_FOR_SAFETY))
    ELSE IF proc.kind = "timeout"
    THEN ToolResult(FALSE, <<>>, SomeText(TIMED_OUT))
    ELSE IF proc.kind = "raise"
    THEN ToolResult(FALSE, <<>>, SomeText(proc.e))
    ELSE LET output_parts ==
                 (IF proc.stdout # <<>> THEN <<proc.stdout>> ELSE <<>>)
                 \o (IF proc.stderr # <<>> THEN <<proc.stderr>> ELSE <<>>)
             joined == Strip(Join(output_parts, <<"\n">>))
             output ==
                 IF Len(joined) > max_len
                 THEN SubSeq(joined, 1, max_len) \o TRUNCATED_1
                          \o Dec(Len(joined)) \o TRUNCATED_2
                 ELSE joined
             echo == PROMPT_ECHO \o command \o <<"\n">>
         IN IF proc.returncode = 0
            THEN ToolResult(TRUE,
                     IF output # <<>> THEN echo \o output
                     ELSE echo \o NO_OUTPUT,
                     NoText)
            ELSE ToolResult(FALSE, echo \o output,
                     SomeText(EXITED_WITH_CODE \o Dec(proc.returncode)))

\* the commands BashTool.execute is called with
BashCommands == {cmd_ls, cmd_rm_root, cmd_mkfs}

\* a call of BashTool.execute
Bash(command, proc) ==
    /\ last_call' = [op |-> "bash", command |-> command, proc |-> proc]
    /\ tool_result' = BashExecute(command, proc)
    /\ UNCHANGED <<permVars, loopVars, perm_request, cleared, files,
                   _tools, tree>>

\* the tools of the model are called on their own, outside a task: the
\* loop and the permission engine stay as constructed
ToolInit ==
    /\ trust_mode = FALSE
    /\ yolo_mode = FALSE
    /\ session_allowlist = {}
    /\ session_denylist = {}
    /\ perm_request = NoRequest
    /\ messages = <<>>
    /\ max_turns = 0
    /\ entry = None
    /\ pc = "idle"
    /\ turn = 0
    /\ tool_calls = <<>>
    /\ idx = 0
    /\ results = <<>>
    /\ choice = None
    /\ outcome = NoOutcome
    /\ ret = None
    /\ model_calls = 0
    /\ executed = <<>>
    /\ cleared = 0

BashInit == ToolInit /\ ToolsIdle

BashNext == \E command \in BashCommands, proc \in Procs : Bash(command, proc)

BashSpec == BashInit /\ [][BashNext]_vars

\* C14: the string form of a ToolResult encodes both its output and its
\* error: for a result with success = false, a non-empty output and a
\* non-empty error, as BashTool.execute returns for a command that exits
\* non-zero after printing, str(result) contains the output and the error.
C14_StrHoldsOutputAndError ==
    (/\ last_call.op = "bash"
     /\ ~tool_result.success
     /\ tool_result.output # <<>>
     /\ Truthy(tool_result.error))
    => /\ Contains(ToolResult__str__(tool_result), tool_result.output)
       /\ Contains(ToolResult__str__(tool_result), tool_result.error[1])

(***************************************************************************)
(* tools/file_tools.py: ReadFileTool, WriteFileTool, EditFileTool.         *)
(* A file is the sequence of characters on disk.                           *)
(***************************************************************************)
Dir == [kind |-> "dir"]
File(content) == [kind |-> "file", content |-> content]

\* os.linesep of the platform the tools run on (POSIX)
linesep == <<"\n">>

\* what open(path, "r") returns for the characters on disk: universal
\* newlines, "\r\n" and "\r" are read as "\n"
RECURSIVE ReadText(_)
ReadText(disk) ==
    IF Len(disk) = 0 THEN <<>>
    ELSE IF disk[1] = "\r"
    THEN IF Len(disk) >= 2 /\ disk[2] = "\n"
         THEN <<"\n">> \o ReadText(SubSeq(disk, 3, Len(disk)))
         ELSE <<"\n">> \o ReadText(Tail(disk))
    ELSE <<disk[1]>> \o ReadText(Tail(disk))

\* what open(path, "w").write(text) puts on disk: "\n" becomes os.linesep
WriteText(text) == Replace(text, "\n", linesep)

\* f.readlines(): the lines of a text, each with its line end
RECURSIVE readlines(_)
readlines(text) ==
    IF Len(text) = 0 THEN <<>>
    ELSE IF \E k \in 1..Len(text) : text[k] = "\n"
    THEN LET k == CHOOSE k \in 1..Len(text) :
                    /\ text[k] = "\n"
                    /\ \A j \in 1..(k - 1) : text[j] # "\n"
         IN <<SubSeq(text, 1, k)>>
                \o readlines(SubSeq(text, k + 1, Len(text)))
    ELSE <<text>>

\* f"{i:6d}"
RECURSIVE rjust(_, _)
rjust(t, width) == IF Len(t) >= width THEN t ELSE rjust(<<" ">> \o t, width)

\* s.count(sub): the non-overlapping occurrences, from the left
RECURSIVE str_count(_, _)
str_count(s, sub) ==
    IF Len(sub) = 0 THEN Len(s) + 1
    ELSE IF Len(s) < Len(sub) THEN 0
    ELSE IF SubSeq(s, 1, Len(sub)) = sub
    THEN 1 + str_count(SubSeq(s, Len(sub) + 1, Len(s)), sub)
    ELSE str_count(Tail(s), sub)

\* s.replace(sub, rep): every non-overlapping occurrence, from the left
RECURSIVE str_replace(_, _, _)
str_replace(s, sub, rep) ==
    IF Len(sub) = 0
    THEN IF Len(s) = 0 THEN rep
         ELSE rep \o <<s[1]>> \o str_replace(Tail(s), sub, rep)
    ELSE IF Len(s) < Len(sub) THEN s
    ELSE IF SubSeq(s, 1, Len(sub)) = sub
    THEN rep \o str_replace(SubSeq(s, Len(sub) + 1, Len(s)), sub, rep)
    ELSE <<s[1]>> \o str_replace(Tail(s), sub, rep)

FILE_NOT_FOUND ==
    <<"F","i","l","e"," ","n","o","t"," ","f","o","u","n","d",":"," ">>
NOT_A_FILE ==
    <<"N","o","t"," ","a"," ","f","i","l","e",":"," ">>
CONTENTS_OF ==
    <<"C","o","n","t","e","n","t","s"," ","o","f"," ">>
IS_EMPTY ==
    <<" ","i","s"," ","e","m","p","t","y">>
IS_A_DIRECTORY ==
    <<"[","E","r","r","n","o"," ","2","1","]"," ","I","s"," ","a"," ","d",
      "i","r","e","c","t","o","r","y",":"," ">>
WROTE_1 ==
    <<"S","u","c","c","e","s","s","f","u","l","l","y"," ","w","r","o","t",
      "e"," ">>
WROTE_2 ==
    <<" ","c","h","a","r","a","c","t","e","r","s"," ","t","o"," ">>
STRING_NOT_FOUND ==
    <<"S","t","r","i","n","g"," ","n","o","t"," ","f","o","u","n","d"," ",
      "i","n"," ","f","i","l","e","."," ","M","a","k","e"," ","s","u","r",
      "e"," ","o","l","d","_","s","t","r"," ","e","x","a","c","t","l","y",
      " ","m","a","t","c","h","e","s"," ","t","h","e"," ","f","i","l","e",
      " ","c","o","n","t","e","n","t"," ","i","n","c","l","u","d","i","n",
      "g"," ","w","h","i","t","e","s","p","a","c","e",".">>
FOUND_1 ==
    <<"S","t","r","i","n","g"," ","f","o","u","n","d"," ">>
FOUND_2 ==
    <<" ","t","i","m","e","s","."," ","o","l","d","_","s","t","r"," ","m",
      "u","s","t"," ","b","e"," ","u","n","i","q","u","e","."," ","I","n",
      "c","l","u","d","e"," ","m","o","r","e"," ","s","u","r","r","o","u",
      "n","d","i","n","g"," ","c","o","n","t","e","x","t"," ","t","o"," ",
      "m","a","k","e"," ","i","t"," ","u","n","i","q","u","e",".">>
EDITED_1 ==
    <<"S","u","c","c","e","s","s","f","u","l","l","y"," ","e","d","i","t",
      "e","d"," ">>
EDITED_2 ==
    <<" ","l","i","n","e","(","s",")"," ","a","f","f","e","c","t","e","d",
      ")">>

\* ReadFileTool.execute(path, limit, offset); limit is <<>> for None
ReadFileExecute(fs, path, limit, offset) ==
    IF fs[path].kind = "missing"
    THEN ToolResult(FALSE, <<>>, SomeText(FILE_NOT_FOUND \o path))
    ELSE IF fs[path].kind # "file"
    THEN ToolResult(FALSE, <<>>, SomeText(NOT_A_FILE \o path))
    ELSE LET all == readlines(ReadText(fs[path].content))
             start_idx == IF offset - 1 > 0 THEN offset - 1 ELSE 0
             from == SubSeq(all, start_idx + 1, Len(all))
             lines == IF limit # <<>> /\ limit[1] > 0
                      THEN SubSeq(from, 1, IF limit[1] < Len(from)
                                           THEN limit[1] ELSE Len(from))
                      ELSE from
             content_lines ==
                 [k \in 1..Len(lines) |->
                     rjust(Dec(start_idx + k), 6) \o <<"\t">>
                         \o RStrip(lines[k])]
             content == Join(content_lines, <<"\n">>)
         IN ToolResult(TRUE,
                IF content # <<>>
                THEN CONTENTS_OF \o path \o <<":", "\n">> \o content
                ELSE path \o IS_EMPTY,
                NoText)

\* WriteFileTool.execute(path, content): <<result, file system>>
WriteFileExecute(fs, path, content) ==
    IF fs[path].kind = "dir"
    THEN <<ToolResult(FALSE, <<>>, SomeText(IS_A_DIRECTORY \o path)), fs>>
    ELSE <<ToolResult(TRUE,
               WROTE_1 \o Dec(Len(content)) \o WROTE_2 \o path, NoText),
           [fs EXCEPT ![path] = File(WriteText(content))]>>

\* EditFileTool.execute(path, old_str, new_str): <<result, file system>>
EditFileExecute(fs, path, old_str, new_str) ==
    IF fs[path].kind = "missing"
    THEN <<ToolResult(FALSE, <<>>, SomeText(FILE_NOT_FOUND \o path)), fs>>
    ELSE IF fs[path].kind # "file"
    THEN <<ToolResult(FALSE, <<>>, SomeText(NOT_A_FILE \o path)), fs>>
    ELSE LET content == ReadText(fs[path].content)
             count == str_count(content, old_str)
             new_content == str_replace(content, old_str, new_str)
             lines_changed == str_count(old_str, <<"\n">>) + 1
         IN IF count = 0
            THEN <<ToolResult(FALSE, <<>>, SomeText(STRING_NOT_FOUND)), fs>>
            ELSE IF count > 1
            THEN <<ToolResult(FALSE, <<>>,
                       SomeText(FOUND_1 \o Dec(count) \o FOUND_2)), fs>>
            ELSE <<ToolResult(TRUE,
                       EDITED_1 \o path \o <<" ", "(">>
                           \o Dec(lines_changed) \o EDITED_2, NoText),
                   [fs EXCEPT ![path] = File(WriteText(new_content))]>>

\* the characters of the files and of the texts written to them
FileChars == {"x", "\n", "\r"}

\* what the path holds when the tools are first called
FileStates ==
    {Missing, Dir} \cup { File(c) : c \in TextsUpTo(FileChars, MaxLen) }

\* the arguments of the calls
WriteContents == TextsUpTo(FileChars, MaxLen - 1)
OldStrs == TextsUpTo({"x", "\n"}, MaxLen - 1)
NewStrs == {<<>>, <<"y">>}
Limits == {<<>>, <<1>>}
Offsets == {1, 2}

FileInit ==
    /\ ToolInit
    /\ files \in [FilePaths -> FileStates]
    /\ _tools = <<>>
    /\ tree = {}
    /\ last_call = NoCall
    /\ tool_result = NoResult

\* a call of ReadFileTool.execute
ReadFile(path, limit, offset) ==
    /\ last_call' = [op |-> "read_file", path |-> path, limit |-> limit,
                     offset |-> offset]
    /\ tool_result' = ReadFileExecute(files, path, limit, offset)
    /\ UNCHANGED <<permVars, loopVars, perm_request, cleared, files,
                   _tools, tree>>

\* a call of WriteFileTool.execute
WriteFile(path, content) ==
    /\ last_call' = [op |-> "write_file", path |-> path,
                     content |-> content]
    /\ tool_result' = WriteFileExecute(files, path, content)[1]
    /\ files' = WriteFileExecute(files, path, content)[2]
    /\ UNCHANGED <<permVars, loopVars, perm_request, cleared, _tools, tree>>

\* a call of EditFileTool.execute
EditFile(path, old_str, new_str) ==
    /\ last_call' = [op |-> "edit_file", path |-> path,
                     old_str |-> old_str, new_str |-> new_str]
    /\ tool_result' = EditFileExecute(files, path, old_str, new_str)[1]
    /\ files' = EditFileExecute(files, path, old_str, new_str)[2]
    /\ UNCHANGED <<permVars, loopVars, perm_request, cleared, _tools, tree>>

FileNext ==
    \/ \E path \in FilePaths, limit \in Limits, offset \in Offsets :
          ReadFile(path, limit, offset)
    \/ \E path \in FilePaths, content \in WriteContents :
          WriteFile(path, content)
    \/ \E path \in FilePaths, old_str \in OldStrs, new_str \in NewStrs :
          EditFile(path, old_str, new_str)

FileSpec == FileInit /\ [][FileNext]_vars


\* the start offsets at which sub occurs in s, overlapping ones included
Occurrences(s, sub) ==
    { k \in 0..(Len(s) - Len(sub)) : SubSeq(s, k + 1, k + Len(sub)) = sub }

\* the step is a call of edit_file on an existing file in which old_str
\* occurs at n start offsets
EditsFileWith(path, n) ==
    /\ last_call'.op = "edit_file"
    /\ last_call'.path = path
    /\ files[path].kind = "file"
    /\ Cardinality(Occurrences(files[path].content, last_call'.old_str)) = n

\* C15: for an edit_file request on an existing file in which old_str
\* occurs exactly once, the content after the edit is the original content
\* with that occurrence replaced by new_str, identical outside it.
C15_EditReplacesTheOccurrence ==
    [][\A path \in FilePaths :
          EditsFileWith(path, 1) =>
              LET c == files[path].content
                  old == last_call'.old_str
                  k == CHOOSE k \in Occurrences(c, old) : TRUE
              IN files'[path] =
                     File(SubSeq(c, 1, k) \o last_call'.new_str
                              \o SubSeq(c, k + Len(old) + 1, Len(c)))
    ]_vars

\* C16: for an edit_file request where old_str occurs at no or at two or
\* more start offsets of the file's content, the file is left unmodified
\* and a failed result with an error text is returned.
C16_EditRejectsOtherCounts ==
    [][\A path \in FilePaths :
          (\E n \in (0..(MaxLen + 1)) \ {1} : EditsFileWith(path, n)) =>
              /\ files' = files
              /\ ~tool_result'.success
              /\ Truthy(tool_result'.error)
    ]_vars

\* the lines of a text, without their line ends
RECURSIVE SplitLines(_)
SplitLines(t) ==
    IF \E k \in 1..Len(t) : t[k] = "\n"
    THEN LET k == CHOOSE k \in 1..Len(t) :
                    /\ t[k] = "\n"
                    /\ \A j \in 1..(k - 1) : t[j] # "\n"
         IN <<SubSeq(t, 1, k - 1)>> \o SplitLines(SubSeq(t, k + 1, Len(t)))
    ELSE <<t>>

\* the content an output of read_file stands for: the text after the
\* header, without the line numbers
ReadBack(output, path) ==
    IF output = path \o IS_EMPTY THEN <<>>
    ELSE LET header == CONTENTS_OF \o path \o <<":", "\n">>
             ls == SplitLines(SubSeq(output, Len(header) + 1, Len(output)))
         IN Join([k \in 1..Len(ls) |-> SubSeq(ls[k], 8, Len(ls[k]))],
                 <<"\n">>)

\* C17: write_file(path, content) followed by read_file(path) with no
\* offset and no limit yields the original content.
C17_WriteReadRoundTrip ==
    [][(/\ last_call.op = "write_file"
        /\ tool_result.success
        /\ last_call'.op = "read_file"
        /\ last_call'.path = last_call.path
        /\ last_call'.limit = <<>>
        /\ last_call'.offset = 1)
       => /\ tool_result'.success
          /\ ReadBack(tool_result'.output, last_call.path)
                = last_call.content
    ]_vars

(***************************************************************************)
(* tools/base.py: ToolRegistry. The dict _tools is the sequence of its     *)
(* items in insertion order.                                               *)
(***************************************************************************)
\* number of different tools that carry the same name
MaxVersions == 2

name_bash ==
    <<"b","a","s","h">>
name_glob ==
    <<"g","l","o","b">>
name_read_file ==
    <<"r","e","a","d","_","f","i","l","e">>
name_nope ==
    <<"n","o","p","e">>
UNKNOWN_TOOL ==
    <<"U","n","k","n","o","w","n"," ","t","o","o","l",":"," ">>

\* the tools that are registered: two tools of the same name differ in
\* their description
ToolNames == {name_bash, name_glob, name_read_file}
Tools ==
    { [name |-> n, description |-> v,
       parameters |-> [required |-> {"command"}, optional |-> {"timeout"}]] :
        n \in ToolNames, v \in 1..MaxVersions }

\* ToolRegistry.get found nothing
NoTool == [name |-> <<>>]

\* the keys of the dict
Keys(d) == { d[k].key : k \in 1..Len(d) }

\* registration that keeps the tool already registered under the name
register_KeepFirst(d, tool) ==
    IF tool.name \in Keys(d) THEN d
    ELSE Append(d, [key |-> tool.name, value |-> tool])

\* ToolRegistry.register: self._tools[tool.name] = tool
register(d, tool) ==
    IF tool.name \in Keys(d)
    THEN [k \in 1..Len(d) |->
             IF d[k].key = tool.name
             THEN [key |-> tool.name, value |-> tool] ELSE d[k]]
    ELSE Append(d, [key |-> tool.name, value |-> tool])

\* ToolRegistry.get
get(d, name) ==
    IF name \in Keys(d)
    THEN d[CHOOSE k \in 1..Len(d) : d[k].key = name].value
    ELSE NoTool

\* ToolRegistry.get_all
get_all(d) == [k \in 1..Len(d) |-> d[k].value]

\* Tool.get_schema
get_schema(tool) ==
    [type |-> "function",
     function |->
        [name |-> tool.name, description |-> tool.description,
         parameters |->
            [type |-> "object",
             properties |-> tool.parameters.required
                                \cup tool.parameters.optional,
             required |-> tool.parameters.required]]]

\* ToolRegistry.get_schemas
get_schemas(d) == [k \in 1..Len(d) |-> get_schema(d[k].value)]

\* what tool.execute(**kwargs) does: it returns a result or raises
ToolOutcomes ==
    { ToolResult(TRUE, <<"o">>, NoText),
      [kind |-> "raise", e |-> BOOM] }

\* ToolRegistry.execute without the test of the lookup: the method of a
\* tool that is None is called
RegistryExecute_NoCheck(d, name, o) ==
    IF get(d, name) = NoTool
    THEN <<[kind |-> "raise", e |-> BOOM], NoTool>>
    ELSE <<o, get(d, name)>>

\* ToolRegistry.execute(name, **kwargs) when the tool, if one is called,
\* does o: <<what execute returns or raises, the tool that was called>>
RegistryExecute(d, name, o) ==
    IF get(d, name) = NoTool
    THEN <<ToolResult(FALSE, <<>>, SomeText(UNKNOWN_TOOL \o name)), NoTool>>
    ELSE <<o, get(d, name)>>

\* a call of ToolRegistry.register
Register(tool) ==
    /\ _tools' = register(_tools, tool)
    /\ last_call' = [op |-> "register", tool |-> tool]
    /\ tool_result' = NoResult
    /\ UNCHANGED <<permVars, loopVars, perm_request, cleared, files, tree>>

\* a call of ToolRegistry.execute
Execute(name, o) ==
    /\ last_call' = [op |-> "execute", name |-> name,
                     ran |-> RegistryExecute(_tools, name, o)[2]]
    /\ tool_result' = RegistryExecute(_tools, name, o)[1]
    /\ UNCHANGED <<permVars, loopVars, perm_request, cleared, files,
                   _tools, tree>>

RegistryInit == ToolInit /\ ToolsIdle

RegistryNext ==
    \/ \E tool \in Tools : Register(tool)
    \/ \E name \in ToolNames \cup {name_nope}, o \in ToolOutcomes :
          Execute(name, o)

RegistrySpec == RegistryInit /\ [][RegistryNext]_vars

\* C18: ToolRegistry.register is idempotent per name and last-wins: the
\* registry holds one entry per distinct name, lookup of a name returns
\* the tool registered last under it, and the schema list has one
\* descriptor per distinct name.
C18_RegisterLastWins ==
    /\ [](/\ \A j, k \in 1..Len(_tools) :
                _tools[j].key = _tools[k].key => j = k
          /\ Len(get_schemas(_tools)) = Cardinality(Keys(_tools))
          /\ \A n \in Keys(_tools) :
                Cardinality({ k \in 1..Len(_tools) :
                    get_schemas(_tools)[k].function.name = n }) = 1)
    /\ [][/\ last_call'.op = "register" =>
               /\ get(_tools', last_call'.tool.name) = last_call'.tool
               /\ Keys(_tools') = Keys(_tools) \cup {last_call'.tool.name}
               /\ \A n \in Keys(_tools) \ {last_call'.tool.name} :
                     get(_tools', n) = get(_tools, n)
          /\ last_call'.op # "register" => _tools' = _tools
       ]_vars

\* C18 witness: two names are registered and the tool found under bash
\* is one that replaced an earlier registration of that name.
C18_Witness ==
    /\ Len(_tools) = 2
    /\ last_call.op = "register"
    /\ last_call.tool.name = name_bash
    /\ last_call.tool.description = 2
    /\ _tools[1].value = last_call.tool
    /\ _tools[2].key = name_glob

\* C19: ToolRegistry.execute with a name that is not registered returns a
\* ToolResult with success = false and an error naming the tool, without
\* raising and without calling any tool; the registry is unchanged.
C19_UnknownToolIsAResult ==
    [][(/\ last_call'.op = "execute"
        /\ last_call'.name \notin Keys(_tools))
       => /\ "success" \in DOMAIN tool_result'
          /\ ~tool_result'.success
          /\ Truthy(tool_result'.error)
          /\ Contains(tool_result'.error[1], last_call'.name)
          /\ last_call'.ran = NoTool
          /\ _tools' = _tools
    ]_vars

\* C19 witness: with a tool registered, execute was called with a name
\* that is not registered and returned the failed result.
C19_Witness ==
    /\ Len(_tools) > 0
    /\ last_call.op = "execute"
    /\ last_call.name = name_nope
    /\ last_call.ran = NoTool
    /\ tool_result = ToolResult(FALSE, <<>>,
                                SomeText(UNKNOWN_TOOL \o name_nope))

(***************************************************************************)
(* tools/search_tools.py: GlobTool. A path is the sequence of its parts;   *)
(* tree holds the files below the base directory, relative to it, and the  *)
(* directories are the proper prefixes of those paths.                     *)
(***************************************************************************)
\* largest number of files below the base directory
MaxFiles == 3

SKIP_DIRS ==
    {".git", "node_modules", "__pycache__", ".venv", "venv", ".env",
     "dist", "build", ".next", ".cache", "target"}

\* a pattern is the sequence of its segments: a literal name, `*`,
\* `*.py` or `**`
SegStar == [t |-> "star"]
SegPy == [t |-> "py"]
SegRec == [t |-> "rec"]
SegLit(name) == [t |-> "lit", name |-> name]

\* the names `*.py` matches
PyNames == {"a.py"}

\* fnmatch of one path part against one pattern segment
SegMatch(seg, name) ==
    CASE seg.t = "lit" -> name = seg.name
      [] seg.t = "star" -> TRUE
      [] seg.t = "py" -> name \in PyNames

\* Path.glob: the file at parts is yielded for the pattern; `**` stands
\* for any number of directories
RECURSIVE GlobMatches(_, _)
GlobMatches(pattern, parts) ==
    IF Len(pattern) = 0 THEN Len(parts) = 0
    ELSE IF Head(pattern).t = "rec"
    THEN \/ GlobMatches(Tail(pattern), parts)
         \/ Len(parts) > 1 /\ GlobMatches(pattern, Tail(parts))
    ELSE /\ Len(parts) > 0
         /\ SegMatch(Head(pattern), Head(parts))
         /\ GlobMatches(Tail(pattern), Tail(parts))

\* the skip test applied to the first part of the relative path only
Skipped_TopOnly(base_path, rel) == rel[1] \in SKIP_DIRS

\* `any(skip in parts for skip in self.SKIP_DIRS)` on match.parts, the
\* parts of base_path followed by those of the relative path
Skipped(base_path, rel) ==
    \E k \in 1..Len(base_path \o rel) : (base_path \o rel)[k] \in SKIP_DIRS

\* the files base_path.glob(pattern) yields that are not skipped
Eligible(base_path, files_below, pattern) ==
    { f \in files_below : GlobMatches(pattern, f) /\ ~Skipped(base_path, f) }

\* the directories below the base directory
DirsBelow(files_below) ==
    UNION { { SubSeq(f, 1, k) : k \in 1..(Len(f) - 1) } : f \in files_below }

\* the directory d lies above the file f
Above(d, f) == Len(d) < Len(f) /\ SubSeq(f, 1, Len(d)) = d

\* the lists of matches GlobTool.execute can collect. The order in which
\* glob yields is the directory order of the file system, a directory
\* before what lies below it. A file is appended first and the length is
\* tested after it: with a limit of one or more the loop stops when limit
\* matches are collected; with a limit below one it stops at the first
\* path that is not skipped, holding that path if it is a file and
\* nothing if it is a directory
GlobResults(base_path, files_below, pattern, limit) ==
    LET eligible == Eligible(base_path, files_below, pattern)
        dirs == { d \in DirsBelow(files_below) :
                    GlobMatches(pattern, d) /\ ~Skipped(base_path, d) }
    IN IF limit >= 1
       THEN IF Cardinality(eligible) <= limit THEN {eligible}
            ELSE { S \in SUBSET eligible : Cardinality(S) = limit }
       ELSE { {f} : f \in { g \in eligible : \A d \in dirs : ~Above(d, g) } }
              \cup (IF dirs # {} \/ eligible = {} THEN {{}} ELSE {})

\* the files a tree can hold
FileUniverse ==
    { <<"a.py">>, <<".git", "config">>, <<".git", "a.py">>,
      <<"src", "a.py">>, <<"src", ".git", "a.py">>,
      <<"node_modules", "m", "a.py">> }

\* the directories glob is called on
BasePaths == { <<"/", "p">>, <<"/", "build", "p">> }

\* the patterns glob is called with
GlobPatterns ==
    { <<SegRec, SegStar>>, <<SegRec, SegPy>>, <<SegStar>>,
      <<SegLit(".git"), SegStar>>, <<SegStar, SegLit(".git"), SegPy>>,
      <<SegRec, SegLit(".git"), SegRec, SegStar>> }

GlobLimits == {1, 100}

GlobInit ==
    /\ ToolInit
    /\ files = [p \in FilePaths |-> Missing]
    /\ _tools = <<>>
    /\ tree \in { t \in SUBSET FileUniverse : Cardinality(t) <= MaxFiles }
    /\ last_call = NoCall
    /\ tool_result = NoResult

\* a call of GlobTool.execute(pattern, path, limit); the result holds the
\* relative paths its output lists (their order, by mtime, is left out)
Glob(pattern, base_path, limit, matches) ==
    /\ matches \in GlobResults(base_path, tree, pattern, limit)
    /\ last_call' = [op |-> "glob", pattern |-> pattern,
                     path |-> base_path, limit |-> limit]
    /\ tool_result' = [success |-> TRUE, matches |-> matches,
                       limited |-> /\ matches # {}
                                   /\ Cardinality(matches) >= limit]
    /\ UNCHANGED <<permVars, loopVars, perm_request, cleared, files,
                   _tools, tree>>

GlobNext ==
    \E pattern \in GlobPatterns, base_path \in BasePaths,
       limit \in GlobLimits, matches \in SUBSET tree :
        Glob(pattern, base_path, limit, matches)

GlobSpec == GlobInit /\ [][GlobNext]_vars

\* the path has a directory among its parts that glob is to skip
InsideSkippedDir(rel) == \E k \in 1..(Len(rel) - 1) : rel[k] \in SKIP_DIRS

\* C20: a glob search never returns a path that lies inside a .git
\* directory or any other skipped directory, whatever the pattern,
\* patterns that match files inside such a directory included.
C20_GlobSkipsMetadataDirs ==
    last_call.op = "glob" =>
        \A m \in tool_result.matches :
            /\ m \in tree
            /\ ~InsideSkippedDir(m)

\* C20 witness: the pattern names the .git directory of a subdirectory
\* and matches a file in it, the tree holds other files, and the search
\* returned nothing.
C20_Witness ==
    /\ last_call.op = "glob"
    /\ last_call.pattern = <<SegStar, SegLit(".git"), SegPy>>
    /\ last_call.path = <<"/", "p">>
    /\ <<"src", ".git", "a.py">> \in tree
    /\ <<"a.py">> \in tree
    /\ tool_result.matches = {}

(***************************************************************************)
(* PermissionManager._matches_pattern on its own, applied to texts and     *)
(* patterns of a bounded alphabet.                                         *)
(***************************************************************************)
\* the characters of the texts and of the patterns
MatchTextChars == {"a", "b"}
MatchPatternChars == {"a", ".", "*", "?"}

MatchTexts == TextsUpTo(MatchTextChars, MaxLen)
MatchPatterns == TextsUpTo(MatchPatternChars, MaxLen)

\* a call of PermissionManager._matches_pattern(text, pattern)
MatchesPattern(text, pattern) ==
    /\ last_call' = [op |-> "_matches_pattern", text |-> text,
                     pattern |-> pattern]
    /\ tool_result' = [kind |-> "bool",
                       value |-> _matches_pattern(text, pattern)]
    /\ UNCHANGED <<permVars, loopVars, perm_request, cleared, files,
                   _tools, tree>>

MatchInit == ToolInit /\ ToolsIdle

MatchNext ==
    \E text \in MatchTexts, pattern \in MatchPatterns :
        MatchesPattern(text, pattern)

MatchSpec == MatchInit /\ [][MatchNext]_vars

\* the reference wildcard matcher: `*` stands for any sequence of
\* characters, `?` for any single character, every other character for
\* itself, and the whole text is matched
RECURSIVE WildcardMatch(_, _)
WildcardMatch(text, pattern) ==
    IF Len(pattern) = 0 THEN Len(text) = 0
    ELSE IF Head(pattern) = "*"
    THEN \/ WildcardMatch(text, Tail(pattern))
         \/ Len(text) > 0 /\ WildcardMatch(Tail(text), pattern)
    ELSE /\ Len(text) > 0
         /\ Head(pattern) = "?" \/ Head(pattern) = Head(text)
         /\ WildcardMatch(Tail(text), Tail(pattern))

\* C22: _matches_pattern treats only `*` (any sequence of characters) and
\* `?` (any single character) as metacharacters, every other pattern
\* character as matching only itself, and matches the whole text: its
\* result equals that of the reference wildcard matcher for every text and
\* pattern; a pattern without `*` or `?` matches only the equal text.
C22_MatcherIsWildcardMatcher ==
    last_call.op = "_matches_pattern" =>
        /\ tool_result.value = WildcardMatch(last_call.text, last_call.pattern)
        /\ (\A k \in 1..Len(last_call.pattern) :
                last_call.pattern[k] \notin {"*", "?"})
           => (tool_result.value <=> last_call.text = last_call.pattern)

(***************************************************************************)
(* The Permission Engine applied to session rules and calls that exercise  *)
(* the rule matching, the order of the steps and the tool classes.         *)
(***************************************************************************)
cmd_ls_l == <<"l","s"," ","-","l">>
cmd_a_plus_b == <<"a","+","b">>
cmd_fork_bomb == <<":","(",")","{"," ",":","|",":","&"," ","}",";",":">>
cmd_rm_tmp == <<"r","m"," ","-","r","f"," ","/","t","m","p","/","x">>
cmd_rm_tmp_wide == <<"r","m"," "," ","-","r","f"," ","/","t","m","p","/","x">>
path_b == <<"b">>

\* session rules: bash(ls*), bash(a+b*), bash(*), write(a), write(*)
RuleRules ==
    { BASH_RULE \o <<"l","s","*">> \o RULE_END,
      BASH_RULE \o <<"a","+","b","*">> \o RULE_END,
      BASH_RULE \o <<"*">> \o RULE_END,
      WRITE_RULE \o path_a \o RULE_END,
      WRITE_RULE \o <<"*">> \o RULE_END }

RuleCommands ==
    {cmd_ls, cmd_ls_l, cmd_a_plus_b, cmd_sudo, cmd_fork_bomb, cmd_rm_tmp,
     cmd_rm_tmp_wide}

RuleCalls ==
    { [name |-> "bash", arguments |-> [command |-> c]] : c \in RuleCommands }
    \cup
    { [name |-> n, arguments |-> a] :
        n \in {"read_file", "glob", "grep"},
        a \in { [path |-> path_a], [pattern |-> <<"*">>],
                [command |-> cmd_rm_root] } }
    \cup
    { [name |-> n, arguments |-> a] :
        n \in {"write_file", "edit_file", "nope"},
        a \in { <<>>, [path |-> path_a], [path |-> path_b],
                [command |-> cmd_rm_root] } }

RuleNext ==
    \/ \E pattern \in RuleRules : add_to_allowlist(pattern)
    \/ \E pattern \in RuleRules : add_to_denylist(pattern)
    \/ \E call \in RuleCalls : CheckPermission(call.name, call.arguments)

RuleSpec == PermInit /\ [][RuleNext]_vars

\* a check_permission call on a bash command has returned
BashChecked == perm_request.level # None /\ perm_request.tool_name = "bash"

\* the rules of the set whose kind is bash and whose pattern is a prefix,
\* free of `*` and `?`, followed by `*`
PrefixRules(rules) ==
    { rule \in rules :
        /\ StartsWith(rule, BASH_RULE) /\ EndsWith(rule, RULE_END)
        /\ LET pat == SliceToLast(rule, Len(BASH_RULE))
           IN /\ Len(pat) >= 1
              /\ pat[Len(pat)] = "*"
              /\ \A k \in 1..(Len(pat) - 1) : pat[k] \notin {"*", "?"} }

\* the prefix of a rule of PrefixRules
PrefixOf(rule) == SubSeq(rule, Len(BASH_RULE) + 1, Len(rule) - 2)

\* C21: in normal mode, when the session allow set holds a bash rule whose
\* pattern is a prefix followed by `*`, every bash command that starts
\* with the prefix and is neither blocked nor dangerous is classified
\* AUTO.
C21_PrefixRuleAllows ==
    (/\ BashChecked
     /\ ~trust_mode /\ ~yolo_mode
     /\ ~HasBlockedLiteral(CommandOf(perm_request))
     /\ ~MatchesDangerous(CommandOf(perm_request))
     /\ \E rule \in PrefixRules(session_allowlist) :
            StartsWith(CommandOf(perm_request), PrefixOf(rule)))
    => perm_request.level = AUTO

\* a rule of the given kind in the set has a pattern the matcher accepts
\* for the text
SessionRuleCovers(rules, kind, text) ==
    \E rule \in rules :
        /\ SubSeq(rule, 1, Len(kind)) = kind
        /\ Len(rule) > 0 /\ rule[Len(rule)] = ")"
        /\ _matches_pattern(text, SubSeq(rule, Len(kind) + 1, Len(rule) - 1))

\* C23: for a bash command that holds no blocked literal and matches no
\* dangerous pattern, check_permission answers AUTO if a session allow
\* rule matches; else DENY with the reason 'Denied by session rule' if a
\* session deny rule matches, in every mode; else ASK in normal mode and
\* AUTO in trust or bypass-all mode.
C23_OrderedSteps ==
    (/\ BashChecked
     /\ ~HasBlockedLiteral(CommandOf(perm_request))
     /\ ~MatchesDangerous(CommandOf(perm_request)))
    => IF SessionRuleCovers(session_allowlist, BASH_RULE,
                            CommandOf(perm_request))
       THEN perm_request.level = AUTO
       ELSE IF SessionRuleCovers(session_denylist, BASH_RULE,
                                 CommandOf(perm_request))
       THEN /\ perm_request.level = DENY
            /\ perm_request.reason = "Denied by session rule"
       ELSE perm_request.level =
                IF trust_mode \/ yolo_mode THEN AUTO ELSE ASK

\* C23 witness: in bypass-all mode a harmless command covered by a deny
\* rule and by no allow rule, with a rule in the allow set, was
\* classified DENY.
C23_Witness ==
    /\ BashChecked
    /\ yolo_mode
    /\ CommandOf(perm_request) = cmd_ls_l
    /\ session_allowlist # {}
    /\ ~SessionRuleCovers(session_allowlist, BASH_RULE, cmd_ls_l)
    /\ SessionRuleCovers(session_denylist, BASH_RULE, cmd_ls_l)
    /\ perm_request.level = DENY

\* C24: for a tool name that is neither a read-only tool nor bash, a
\* write_file or edit_file call whose path matches a write rule of the
\* session allow set is AUTO; every other such call is ASK in normal mode
\* and AUTO in trust or bypass-all mode; none is DENY.
C24_MutatingAndUnknownTools ==
    (/\ perm_request.level # None
     /\ perm_request.tool_name \notin {"read_file", "glob", "grep", "bash"})
    => /\ perm_request.level # DENY
       /\ IF /\ perm_request.tool_name \in {"write_file", "edit_file"}
             /\ SessionRuleCovers(session_allowlist, WRITE_RULE,
                                  Get(perm_request.tool_input, "path"))
          THEN perm_request.level = AUTO
          ELSE perm_request.level =
                   IF trust_mode \/ yolo_mode THEN AUTO ELSE ASK

\* C24 witness: in normal mode, with the allow rules write(a) and bash(*),
\* an edit_file call on the path b was classified ASK.
C24_Witness ==
    /\ perm_request.level = ASK
    /\ perm_request.tool_name = "edit_file"
    /\ Get(perm_request.tool_input, "path") = path_b
    /\ ~trust_mode /\ ~yolo_mode
    /\ session_allowlist = { WRITE_RULE \o path_a \o RULE_END,
                             BASH_RULE \o <<"*">> \o RULE_END }

\* C25: read_file, glob and grep are AUTO for every argument mapping,
\* every combination of the mode flags and every content of the session
\* allow and deny sets.
C25_ReadOnlyAlwaysAuto ==
    (/\ perm_request.level # None
     /\ perm_request.tool_name \in {"read_file", "glob", "grep"})
    => perm_request.level = AUTO

\* C25 witness: in normal mode, with a deny rule that covers every bash
\* command, a grep call that carries a blocked command was classified
\* AUTO.
C25_Witness ==
    /\ perm_request.level = AUTO
    /\ perm_request.tool_name = "grep"
    /\ Get(perm_request.tool_input, "command") = cmd_rm_root
    /\ ~trust_mode /\ ~yolo_mode
    /\ BASH_RULE \o <<"*">> \o RULE_END \in session_denylist

\* C26: a bash command that contains the fork bomb `:(){ :|:& };:` is
\* classified DENY in every mode and with any session rules.
C26_ForkBombDenied ==
    (/\ BashChecked
     /\ Contains(CommandOf(perm_request), cmd_fork_bomb))
    => perm_request.level = DENY

\* the reasons of the dangerous patterns that name a recursive delete
RecursiveDeleteReasons ==
    { "Dangerous pattern: " \o DANGEROUS_BASH_PATTERNS[k].reason :
        k \in 1..3 }

\* C27: in normal mode with empty session rule sets, `rm -rf` followed by
\* an absolute path, such as `rm -rf /tmp/x`, matches the dangerous
\* pattern list and is DENY with a reason that names the recursive delete.
C27_RecursiveDeleteReason ==
    (/\ BashChecked
     /\ ~trust_mode /\ ~yolo_mode
     /\ session_allowlist = {} /\ session_denylist = {}
     /\ StartsWith(CommandOf(perm_request), cmd_rm_root))
    => /\ MatchesDangerous(CommandOf(perm_request))
       /\ perm_request.level = DENY
       /\ perm_request.reason \in RecursiveDeleteReasons

(***************************************************************************)
(* Properties of BashTool.execute (checked under BashSpec).                *)
(***************************************************************************)
TIMED_OUT_WORDS == <<"t","i","m","e","d"," ","o","u","t">>

\* C28: BashTool.execute returns success = true exactly when the command
\* was not refused by the blocklist of the tool, did not time out and
\* exited with code 0; a non-zero exit gives a failed result whose error
\* carries the exit code; a timeout gives a failed result whose error is
\* a timeout message that no non-zero exit produces; both are returned as
\* results, not raised.
C28_SuccessIffExitZero ==
    last_call.op = "bash" =>
        LET refused == is_blocked(last_call.command)
            proc == last_call.proc
        IN /\ "success" \in DOMAIN tool_result
           /\ tool_result.success <=>
                  (~refused /\ proc.kind = "exit" /\ proc.returncode = 0)
           /\ (~refused /\ proc.kind = "exit" /\ proc.returncode # 0) =>
                  /\ Truthy(tool_result.error)
                  /\ EndsWith(tool_result.error[1], Dec(proc.returncode))
           /\ (~refused /\ proc.kind = "timeout") =>
                  /\ Truthy(tool_result.error)
                  /\ Contains(tool_result.error[1], TIMED_OUT_WORDS)
                  /\ ~StartsWith(tool_result.error[1], EXITED_WITH_CODE)

\* C28 witness: a command that is not refused printed to both streams and
\* exited with code 2, and the failed result names the code.
C28_Witness ==
    /\ last_call.op = "bash"
    /\ last_call.command = cmd_ls
    /\ last_call.proc.kind = "exit"
    /\ last_call.proc.returncode = 2
    /\ last_call.proc.stdout # <<>>
    /\ last_call.proc.stderr # <<>>
    /\ ~tool_result.success
    /\ tool_result.error = SomeText(EXITED_WITH_CODE \o <<"2">>)

(***************************************************************************)
(* Sequencing and frame properties of the loop (checked under Spec).       *)
(***************************************************************************)
RECURSIVE AssistantCount(_)
AssistantCount(ms) ==
    IF Len(ms) = 0 THEN 0
    ELSE (IF Head(ms).role = "assistant" THEN 1 ELSE 0)
         + AssistantCount(Tail(ms))

\* the model requests that were issued and have not been answered
OpenRequests == model_calls - AssistantCount(messages)

\* a result is recorded for the call with the id
HasResult(id) ==
    \E m \in Range(messages) \cup Range(results) :
        m.role = "tool" /\ m.tool_call_id = id

\* the executions that were started and whose result is not recorded
OpenExecutions == { k \in 1..Len(executed) : ~HasResult(executed[k]) }

\* C29: execution is strictly sequential: at most one model request and
\* at most one tool execution is open at any time; no model request is
\* issued or open while a batch is processed; within a batch the decision,
\* the prompt and the execution of call i are complete, its result
\* recorded, before the decision of call i+1 begins, in the order in
\* which the model listed the calls.
C29_StrictlySequential ==
    /\ [](/\ OpenRequests \in {0, 1}
          /\ Cardinality(OpenExecutions) <= 1
          /\ OpenExecutions # {} =>
                /\ pc = "tool_running"
                /\ OpenExecutions = {Len(executed)}
                /\ Last(executed) = tool_calls[idx].id
          /\ InBatch =>
                /\ OpenRequests = 0
                /\ idx \in 1..Len(tool_calls)
                /\ Len(results) = idx - 1
                /\ \A k \in 1..Len(results) :
                      results[k].tool_call_id = tool_calls[k].id)
    /\ [][/\ model_calls' # model_calls =>
                /\ model_calls' = model_calls + 1
                /\ OpenRequests' = 1
                /\ OpenExecutions' = {}
                /\ InBatch => Len(results') = Len(tool_calls)
          /\ (perm_request' # perm_request /\ perm_request'.level # None) =>
                /\ pc = "executing_tools"
                /\ perm_request'.tool_name = tool_calls[idx].name
                /\ perm_request'.tool_input = tool_calls[idx].arguments
                /\ OpenExecutions = {}
                /\ Len(results) = idx - 1
          /\ executed' # executed =>
                /\ executed' = Append(executed, tool_calls[idx].id)
                /\ OpenExecutions = {}
                /\ Len(results) = idx - 1
       ]_vars

\* C29 witness: in a batch of two calls the first was executed and its
\* result recorded, and the human is being asked about the second.
C29_Witness ==
    /\ pc = "awaiting_permission"
    /\ Len(tool_calls) = 2
    /\ idx = 2
    /\ Len(results) = 1
    /\ executed = <<tool_calls[1].id>>
    /\ OpenExecutions = {}
    /\ OpenRequests = 0

\* C30: during a run of the loop the session rule sets change only at an
\* 'always' answer: the allow set only grows, and gains an element only
\* in the step in which the human answers 'always'; model calls,
\* permission checks, tool executions, yes/no answers and DENY outcomes
\* leave both sets unchanged; the loop never changes the deny set.
C30_RulesChangeOnlyAtAlways ==
    [][/\ session_allowlist \subseteq session_allowlist'
       /\ session_denylist' = session_denylist
       /\ session_allowlist' # session_allowlist =>
             /\ pc = "awaiting_permission"
             /\ perm_request.level = ASK
             /\ choice' = "always"
             /\ session_allowlist' =
                    session_allowlist \cup AlwaysRule(perm_request)
      ]_vars

\* C30 witness: the human answered 'always', the rule for the call is in
\* the allow set and the call is being executed.
C30_Witness ==
    /\ pc = "tool_running"
    /\ choice = "always"
    /\ perm_request.level = ASK
    /\ AlwaysRule(perm_request) # {}
    /\ AlwaysRule(perm_request) \subseteq session_allowlist
    /\ session_denylist = {}

(***************************************************************************)
(* check_permission as the code evaluates it: the session sets are Python  *)
(* sets, walked in an order that the language leaves open, and re.match    *)
(* raises re.error for a rule whose pattern is no regular expression.      *)
(***************************************************************************)
\* re.compile raises re.error: the parentheses of the pattern do not
\* balance (`missing )`, `unbalanced parenthesis`)
RECURSIVE ParenDepth(_, _)
ParenDepth(s, depth) ==
    IF depth < 0 THEN depth
    ELSE IF Len(s) = 0 THEN depth
    ELSE ParenDepth(Tail(s), CASE Head(s) = "(" -> depth + 1
                                [] Head(s) = ")" -> depth - 1
                                [] OTHER -> depth)

re_raises(regex_pattern) == ParenDepth(regex_pattern, 0) # 0

\* _matches_pattern(text, pattern) raises
_matches_pattern_raises(pattern) ==
    re_raises(Replace(Replace(pattern, "*", <<".", "*">>), "?", <<".">>))

\* the rules of the kind, which are the ones the loops pass to
\* _matches_pattern
KindRules(rules, kind) ==
    { rule \in rules : StartsWith(rule, kind) /\ EndsWith(rule, RULE_END) }

\* `for rule in rules: if <kind> and self._matches_pattern(...): return`:
\* the ways the loop can end over the orders in which the set is walked:
\* at a rule that matches, in re.error, or after the last rule
LoopOutcomes(rules, kind, text) ==
    LET raisers == { rule \in KindRules(rules, kind) :
                       _matches_pattern_raises(SliceToLast(rule, Len(kind))) }
        matchers == { rule \in KindRules(rules, kind) \ raisers :
                        _matches_pattern(text, SliceToLast(rule, Len(kind))) }
    IN (IF matchers # {} THEN {"match"} ELSE {})
       \cup (IF raisers # {} THEN {"raise"} ELSE {})
       \cup (IF matchers = {} /\ raisers = {} THEN {"none"} ELSE {})

Raised == [kind |-> "raise", e |-> "re.error"]
Returned(request) == [kind |-> "return", request |-> request]

\* _check_bash_command: the <<level, reason>> pairs it can return, and
\* <<"raise", e>> for an evaluation that raises e
_check_bash_command_outcomes(command, allowlist, denylist) ==
    LET fixed == _check_bash_command(command, {}, {})
        allow == LoopOutcomes(allowlist, BASH_RULE, command)
        deny == LoopOutcomes(denylist, BASH_RULE, command)
    IN IF fixed[1] = DENY THEN {fixed}
       ELSE (IF "match" \in allow THEN {<<AUTO, None>>} ELSE {})
            \cup (IF "raise" \in allow THEN {<<"raise", "re.error">>} ELSE {})
            \cup (IF "none" \in allow
                  THEN (IF "match" \in deny
                        THEN {<<DENY, "Denied by session rule">>} ELSE {})
                       \cup (IF "raise" \in deny THEN {<<"raise", "re.error">>} ELSE {})
                       \cup (IF "none" \in deny THEN {<<ASK, None>>} ELSE {})
                  ELSE {})

\* check_permission: what an evaluation can end in
check_permission_outcomes(tool_name, tool_input, trust, yolo, allowlist, denylist) ==
    LET bash == _check_bash_command_outcomes(Get(tool_input, "command"),
                                             allowlist, denylist)
        write == LoopOutcomes(allowlist, WRITE_RULE, Get(tool_input, "path"))
        Req(level, reason) ==
            Returned(PermissionRequest(tool_name, tool_input, level, reason))
    IN IF yolo
       THEN IF tool_name = "bash"
            THEN { IF o[1] = "raise" THEN Raised
                   ELSE IF o[1] = DENY THEN Req(o[1], o[2])
                   ELSE Req(AUTO, None) : o \in bash }
            ELSE {Req(AUTO, None)}
       ELSE IF tool_name \in {"read_file", "glob", "grep"}
       THEN {Req(AUTO, None)}
       ELSE IF tool_name \in {"write_file", "edit_file"}
       THEN { CASE o = "match" -> Req(AUTO, None)
                [] o = "raise" -> Raised
                [] o = "none" -> Req(IF ~trust THEN ASK ELSE AUTO, None) :
              o \in write }
       ELSE IF tool_name = "bash"
       THEN { IF o[1] = "raise" THEN Raised
              ELSE Req(IF o[1] = ASK /\ trust THEN AUTO ELSE o[1], o[2]) :
              o \in bash }
       ELSE {Req(IF ~trust THEN ASK ELSE AUTO, None)}

\* session rules: bash(ls*), bash(*), bash((cd*), write(a), write((*)
PureRules ==
    { BASH_RULE \o <<"l","s","*">> \o RULE_END,
      BASH_RULE \o <<"*">> \o RULE_END,
      BASH_RULE \o <<"(","c","d","*">> \o RULE_END,
      WRITE_RULE \o path_a \o RULE_END,
      WRITE_RULE \o <<"(","*">> \o RULE_END }

PureCalls ==
    { [name |-> "bash", arguments |-> [command |-> c]] :
        c \in {cmd_ls, cmd_ls_l, cmd_sudo, cmd_rm_root} }
    \cup
    { [name |-> n, arguments |-> [path |-> p]] :
        n \in {"read_file", "write_file", "edit_file", "nope"},
        p \in {path_a, path_b} }

\* an evaluation of check_permission(tool_name, tool_input), which ends in
\* one of its outcomes; the call is kept with everything the evaluation
\* read
Evaluate(tool_name, tool_input) ==
    /\ tool_result' \in check_permission_outcomes(tool_name, tool_input,
                 trust_mode, yolo_mode, session_allowlist, session_denylist)
    /\ last_call' = [op |-> "check_permission", tool_name |-> tool_name,
                     tool_input |-> tool_input, trust_mode |-> trust_mode,
                     yolo_mode |-> yolo_mode,
                     session_allowlist |-> session_allowlist,
                     session_denylist |-> session_denylist]
    /\ UNCHANGED <<permVars, loopVars, perm_request, cleared, files,
                   _tools, tree>>

PureNext ==
    \/ \E pattern \in PureRules : add_to_allowlist(pattern)
    \/ \E pattern \in PureRules : add_to_denylist(pattern)
    \/ \E call \in PureCalls : Evaluate(call.name, call.arguments)

PureSpec == PermInit /\ [][PureNext]_vars

\* C31: check_permission is a pure decision function: an evaluation
\* changes neither the session allow set, the session deny set nor the
\* mode flags, and two evaluations with the same tool name, arguments,
\* mode flags and session rule sets return the same level and reason.
C31_CheckPermissionIsPure ==
    [][(last_call'.op = "check_permission"
        /\ <<last_call', tool_result'>> # <<last_call, tool_result>>) =>
          /\ UNCHANGED permVars
          /\ last_call' = last_call =>
                /\ tool_result.kind = "return"
                /\ tool_result'.kind = "return"
                /\ tool_result'.request.level = tool_result.request.level
                /\ tool_result'.request.reason = tool_result.request.reason
      ]_vars


(***************************************************************************)
(* agent.py: the loop with calls whose command or path holds a character   *)
(* that is special in a regular expression.                                *)
(***************************************************************************)
\* the (name, arguments) pairs the model may request here
AlwaysShapes ==
    { [name |-> "bash", arguments |-> [command |-> cmd_a_plus_b]],
      [name |-> "bash", arguments |-> [command |-> cmd_ls_l]],
      [name |-> "write_file", arguments |-> [path |-> cmd_a_plus_b]],
      [name |-> "edit_file", arguments |-> [path |-> path_b]] }

\* the replies client.chat can return: a text, or one of these calls
AlwaysResponses ==
    IF pc # "awaiting_model" THEN {} ELSE
    { [content |-> c, tool_calls |-> <<>>] : c \in {"final"} }
    \cup
    { [content |-> None,
       tool_calls |-> <<ToolCall(<<model_calls, 1>>, s.name, s.arguments)>>] :
      s \in { t \in AlwaysShapes :
                RequestedCalls(messages) + cleared + 1 <= MaxCalls } }

AlwaysNext ==
    \/ \E task \in {"task"} : Run(task)
    \/ \E message \in {"hello"} : Chat(message)
    \/ \E response \in AlwaysResponses : ModelReply(response)
    \/ ModelError
    \/ CheckTool
    \/ \E c \in Choices : HumanAnswer(c)
    \/ \E o \in Outcomes \cup {[kind |-> "raise", e |-> "TypeError"]} :
          ToolReturn(o)

AlwaysSpec == Init /\ [][AlwaysNext]_vars

\* the human answered 'always' to a prompt for a call with the command
\* (resp. the path) of this request: the rule that answer records is in
\* the allow set, which under AlwaysSpec nothing else fills and nothing
\* empties
AnsweredAlwaysBefore(request) ==
    /\ AlwaysRule(request) # {}
    /\ AlwaysRule(request) \subseteq session_allowlist

\* C32: in normal mode the human is never prompted for a bash command
\* (resp. a write_file / edit_file path) for which the answer 'always'
\* was given before: the identical later call is AUTO and runs unprompted
C32_AlwaysCoversIdenticalCall ==
    (pc = "awaiting_permission" /\ ~trust_mode /\ ~yolo_mode)
        => ~AnsweredAlwaysBefore(perm_request)


(***************************************************************************)
(* search_tools.py: GrepTool, and the two search tools called with every   *)
(* kind of limit.                                                          *)
(***************************************************************************)
\* the length a matching line is cut to
max_line == 200

\* s[:n]
Take(s, n) == SubSeq(s, 1, IF Len(s) < n THEN Len(s) ELSE n)

\* the loop over the lines of one file: a matching line is appended and
\* the length is tested after it
RECURSIVE GrepCollect(_, _, _, _, _, _)
GrepCollect(lines, k, regex, ignore_case, limit, acc) ==
    IF k > Len(lines) THEN acc
    ELSE IF re_search(regex, lines[k], ignore_case)
    THEN LET more == Append(acc, [line |-> k,
                                  content |-> Take(RStrip(lines[k]),
                                                   max_line)])
         IN IF Len(more) >= limit THEN more
            ELSE GrepCollect(lines, k + 1, regex, ignore_case, limit, more)
    ELSE GrepCollect(lines, k + 1, regex, ignore_case, limit, acc)

\* GrepTool.execute(pattern, path, ignore_case=ignore_case, limit=limit)
\* for a path that is missing, an empty directory or a text file; the
\* patterns are valid regular expressions
GrepExecute(fs, pattern, path, ignore_case, limit) ==
    IF fs[path].kind = "missing"
    THEN [success |-> FALSE, matches |-> <<>>, limited |-> FALSE]
    ELSE LET lines == IF fs[path].kind = "file"
                      THEN readlines(ReadText(fs[path].content))
                      ELSE <<>>
             matches == GrepCollect(lines, 1, re_compile(pattern),
                                    ignore_case, limit, <<>>)
         IN [success |-> TRUE, matches |-> matches,
             limited |-> Len(matches) > 0 /\ Len(matches) >= limit]

\* the patterns grep is called with
GrepPatterns == { <<"x">>, <<"X">>, <<".">>, <<>> }

\* the limits the search tools are called with
SearchLimits == {0 - 1, 0, 1, 2}

\* a call of GrepTool.execute
Grep(pattern, path, ignore_case, limit) ==
    /\ last_call' = [op |-> "grep", pattern |-> pattern, path |-> path,
                     ignore_case |-> ignore_case, limit |-> limit]
    /\ tool_result' = GrepExecute(files, pattern, path, ignore_case, limit)
    /\ UNCHANGED <<permVars, loopVars, perm_request, cleared, files,
                   _tools, tree>>

\* the tools are called on a tree of files or on one text file
SearchInit ==
    /\ ToolInit
    /\ \/ /\ files = [p \in FilePaths |-> Missing]
          /\ tree \in { t \in SUBSET FileUniverse : Cardinality(t) <= MaxFiles }
       \/ /\ files \in [FilePaths -> FileStates]
          /\ tree = {}
    /\ _tools = <<>>
    /\ last_call = NoCall
    /\ tool_result = NoResult

SearchNext ==
    \/ \E pattern \in GlobPatterns, base_path \in BasePaths,
          limit \in SearchLimits :
           \E matches \in GlobResults(base_path, tree, pattern, limit) :
              Glob(pattern, base_path, limit, matches)
    \/ \E pattern \in GrepPatterns, path \in FilePaths,
          ignore_case \in BOOLEAN, limit \in SearchLimits :
           Grep(pattern, path, ignore_case, limit)

SearchSpec == SearchInit /\ [][SearchNext]_vars

\* the number of lines of the file that the pattern finds
MatchingLines(fs, pattern, path, ignore_case) ==
    IF fs[path].kind # "file" THEN 0
    ELSE LET lines == readlines(ReadText(fs[path].content))
         IN Cardinality({ k \in 1..Len(lines) :
                re_search(re_compile(pattern), lines[k], ignore_case) })

\* the most results a limit admits: a count is never negative, so a
\* limit below zero admits none
Cap(limit) == IF limit < 0 THEN 0 ELSE limit

\* C33: for every limit, zero and negative limits included, glob and grep
\* return no more paths or matches than the limit admits, and the notice
\* 'limited to N results' is reported exactly when at least one further
\* match existed beyond those returned
C33_ResultsCappedAndNoticeExact ==
    /\ last_call.op = "glob" =>
          /\ Cardinality(tool_result.matches) <= Cap(last_call.limit)
          /\ tool_result.limited <=>
                Cardinality(Eligible(last_call.path, tree, last_call.pattern))
                    > Cardinality(tool_result.matches)
    /\ last_call.op = "grep" =>
          /\ Len(tool_result.matches) <= Cap(last_call.limit)
          /\ tool_result.limited <=>
                MatchingLines(files, last_call.pattern, last_call.path,
                              last_call.ignore_case)
                    > Len(tool_result.matches)


(***************************************************************************)
(* cli.py: interactive_loop, one message after another, with Ctrl-C.       *)
(***************************************************************************)
\* the number of messages the user sends in one session
MaxChats == 2

\* the user messages of the history
RECURSIVE UserCount(_)
UserCount(ms) ==
    IF Len(ms) = 0 THEN 0
    ELSE (IF Head(ms).role = "user" THEN 1 ELSE 0) + UserCount(Tail(ms))

\* KeyboardInterrupt while client.chat, ui.ask_permission or tool.execute
\* is running: no handler of agent.py catches it (`except Exception` does
\* not), so it leaves _execute_tool, _process_tool_calls, run_turn and
\* chat, and interactive_loop prints its hint and reads the next input
Interrupt ==
    /\ pc \in {"awaiting_model", "awaiting_permission", "tool_running"}
    /\ entry = "chat"
    /\ pc' = "cancelled"
    /\ ret' = "KeyboardInterrupt"
    /\ UNCHANGED <<permVars, messages, max_turns, entry, turn, tool_calls,
                   idx, results, perm_request, choice, outcome,
                   model_calls, executed>>
    /\ UNCHANGED <<cleared, toolVars>>

\* interactive_loop calls agent.chat(user_input) after the previous chat
\* returned or was cancelled: a new loop over range(max_turns) on the
\* history as it was left
NextChat(message) ==
    /\ pc \in {"done", "exhausted", "cancelled"}
    /\ entry = "chat"
    /\ UserCount(messages) < MaxChats
    /\ IF LoopBound(0)
       THEN /\ messages' = Append(messages, UserMessage(message))
            /\ turn' = 1
            /\ model_calls' = model_calls + 1
            /\ pc' = "awaiting_model"
            /\ ret' = None
       ELSE /\ pc' = "exhausted"
            /\ ret' = IncompleteMessage("chat")
            /\ turn' = 0
            /\ UNCHANGED <<messages, model_calls>>
    /\ tool_calls' = <<>>
    /\ idx' = 0
    /\ results' = <<>>
    /\ perm_request' = NoRequest
    /\ choice' = None
    /\ outcome' = NoOutcome
    /\ UNCHANGED <<permVars, max_turns, entry, executed>>
    /\ UNCHANGED <<cleared, toolVars>>

InteractiveNext ==
    \/ \E message \in {"hello"} : Chat(message)
    \/ \E message \in {"again"} : NextChat(message)
    \/ \E response \in AlwaysResponses : ModelReply(response)
    \/ ModelError
    \/ CheckTool
    \/ \E c \in Choices : HumanAnswer(c)
    \/ \E o \in Outcomes \cup {[kind |-> "raise", e |-> "TypeError"]} :
          ToolReturn(o)
    \/ Interrupt

InteractiveSpec == Init /\ [][InteractiveNext]_vars

\* the tool call has a tool-result message after the message at k
AnsweredAfter(k, id) ==
    \E j \in (k + 1)..Len(messages) :
        /\ messages[j].role = "tool"
        /\ messages[j].tool_call_id = id

\* C34: whenever the model is called, every assistant message of the
\* history that carries tool calls is followed by a tool-result message
\* for each of its calls, also after a chat was cancelled during a
\* permission prompt or a tool and the user sent another message
C34_HistoryWellFormedAtModelCall ==
    pc = "awaiting_model" =>
        \A k \in 1..Len(messages) :
            RequestsTools(messages[k]) =>
                \A c \in 1..Len(messages[k].tool_calls) :
                    AnsweredAfter(k, messages[k].tool_calls[c].id)


(***************************************************************************)
(* agent.py and tools/bash_tool.py: bash calls through the loop, with the  *)
(* tool's own check in front of subprocess.run.                            *)
(***************************************************************************)
cmd_DD_sdb == <<"D","D"," ","i","f","=","/","d","e","v","/","z","e","r","o",
                " ","o","f","=","/","d","e","v","/","s","d","b">>

\* the bash calls the model may request here
ShellShapes ==
    { [name |-> "bash", arguments |-> [command |-> c]] :
        c \in {cmd_ls, cmd_fork_bomb, cmd_RM_ROOT, cmd_DD_sdb} }

\* the replies client.chat can return: a text, or one of these calls
ShellResponses ==
    IF pc # "awaiting_model" THEN {} ELSE
    { [content |-> c, tool_calls |-> <<>>] : c \in {"final"} }
    \cup
    { [content |-> None,
       tool_calls |-> <<ToolCall(<<model_calls, 1>>, s.name, s.arguments)>>] :
      s \in { t \in ShellShapes :
                RequestedCalls(messages) + cleared + 1 <= MaxCalls } }

\* the rules the session starts with
ShellRules ==
    { BASH_RULE \o <<"*">> \o RULE_END,
      BASH_RULE \o <<"l","s","*">> \o RULE_END }

\* what subprocess.run does with the command
ShellProcs ==
    { p \in Procs : p.kind = "exit" =>
                       /\ p.stdout = <<"o">>
                       /\ p.stderr = <<>>
                       /\ p.returncode < 2 }

\* subprocess.run was not called
NotSpawned == [kind |-> "not spawned"]

\* tool.execute of the bash tool returned (agent.py:101-105 with
\* bash_tool.py:68-122): subprocess.run is reached only by a command that
\* is_blocked lets through, and then behaves as proc
BashReturn(proc) ==
    /\ pc = "tool_running"
    /\ tool_calls[idx].name = "bash"
    /\ LET command == Get(tool_calls[idx].arguments, "command")
           result == BashExecute(command, proc)
       IN /\ last_call' = [op |-> "bash", command |-> command,
                           proc |-> IF is_blocked(command)
                                    THEN NotSpawned ELSE proc,
                           id |-> tool_calls[idx].id]
          /\ tool_result' = result
          /\ outcome' = [kind |-> "result", result |-> result]
          /\ Record(ToolResult__str__(result))
    /\ UNCHANGED <<permVars, max_turns, entry, tool_calls, perm_request,
                   choice, executed>>
    /\ UNCHANGED <<cleared, files, _tools, tree>>

ShellNext ==
    \/ \E pattern \in ShellRules : add_to_allowlist(pattern)
    \/ \E pattern \in ShellRules : add_to_denylist(pattern)
    \/ \E task \in {"task"} : Run(task)
    \/ \E message \in {"hello"} : Chat(message)
    \/ \E response \in ShellResponses : ModelReply(response)
    \/ ModelError
    \/ CheckTool
    \/ \E c \in Choices : HumanAnswer(c)
    \/ \E proc \in ShellProcs : BashReturn(proc)

ShellSpec == Init /\ [][ShellNext]_vars

\* the command holds one of the literals of BashTool.BLOCKED_PATTERNS,
\* whatever the case of its letters
HoldsToolLiteral(command) ==
    LET low == Lower(command)
    IN \/ Contains(low, <<"r","m"," ","-","r","f"," ","/">>)
       \/ Contains(low, cmd_fork_bomb)
       \/ Contains(low, <<">"," ","/","d","e","v","/","s","d","a">>)
       \/ Contains(low, SubSeq(cmd_dd, 1, 24))
       \/ Contains(low, <<"m","k","f","s",".">>)

\* the call has this result, in the batch or in the history
ResultRecorded(id, content) ==
    \/ \E k \in 1..Len(results) :
          /\ results[k].tool_call_id = id
          /\ results[k].content = content
    \/ \E k \in 1..Len(messages) :
          /\ messages[k].role = "tool"
          /\ messages[k].tool_call_id = id
          /\ messages[k].content = content

\* C35: through the loop no subprocess is spawned for a bash command that
\* holds, in any case of letters, one of the tool's blocked literals, in
\* every mode, with any session rules and whatever the human answers;
\* when the tool is called, the call gets the tool's refusal, a failed
\* result
C35_BlockedNeverSpawned ==
    (last_call.op = "bash" /\ HoldsToolLiteral(last_call.command)) =>
        /\ last_call.proc = NotSpawned
        /\ ~tool_result.success
        /\ ResultRecorded(last_call.id, ERROR_PREFIX \o BLOCKED_FOR_SAFETY)

\* C35 witness: the engine asked about a command with a blocked literal in
\* capitals, the human allowed it, and the tool refused it without
\* spawning a process.
C35_Witness ==
    /\ last_call.op = "bash"
    /\ last_call.command = cmd_DD_sdb
    /\ last_call.proc = NotSpawned
    /\ perm_request.level = ASK
    /\ choice \in {"y", "always"}
    /\ ResultRecorded(last_call.id, ERROR_PREFIX \o BLOCKED_FOR_SAFETY)


(***************************************************************************)
(* permissions.py and tools/bash_tool.py: the two blocklists side by side. *)
(***************************************************************************)
cmd_rm_root_padded == <<" ", "\t">> \o cmd_RM_ROOT \o <<" ", "\n">>
cmd_DD_sda == <<"l","s",";","D","D"," ","I","F","=","/","d","e","v","/","z","e","r","o",
                " ","O","F","=","/","d","e","v","/","S","D","A","1">>

\* the commands both checks are applied to
BlocklistCommands ==
    PermCommands \cup {cmd_rm_root_padded, cmd_DD_sda, cmd_DD_sdb,
                       cmd_rm_tmp, cmd_rm_tmp_wide, cmd_fork_bomb}

\* what subprocess.run does with the command
BlocklistProcs ==
    { [kind |-> "exit", returncode |-> 0, stdout |-> <<>>, stderr |-> <<>>],
      [kind |-> "timeout"] }

\* PermissionManager.check_permission("bash", {"command": command}) on the
\* rules recorded so far and BashTool.execute(command), applied to the
\* same command; the results are kept
SideBySide(command, proc) ==
    /\ perm_request.level = None
    /\ perm_request' = check_permission("bash", [command |-> command],
                           trust_mode, yolo_mode, session_allowlist,
                           session_denylist)
    /\ last_call' = [op |-> "bash", command |-> command,
                     proc |-> IF is_blocked(command)
                              THEN NotSpawned ELSE proc,
                     id |-> <<0, 0>>]
    /\ tool_result' = BashExecute(command, proc)
    /\ UNCHANGED <<permVars, loopVars, cleared, files, _tools, tree>>

BlocklistNext ==
    \/ \E pattern \in PermRules : add_to_allowlist(pattern)
    \/ \E pattern \in PermRules : add_to_denylist(pattern)
    \/ \E command \in BlocklistCommands, proc \in BlocklistProcs :
          SideBySide(command, proc)

BlocklistSpec == PermInit /\ [][BlocklistNext]_vars

\* the reasons of a denial for an engine-level blocked literal
BlockedReasons ==
    { "Blocked command: " \o BLOCKED_COMMANDS[k].str :
        k \in 1..Len(BLOCKED_COMMANDS) }

\* C36: every bash command the engine denies for an engine-level blocked
\* literal is also refused by the tool: applied to the same command, the
\* tool spawns no process and returns a failed result
C36_ToolRefusesWhatEngineBlocks ==
    (/\ last_call.op = "bash"
     /\ perm_request.level = DENY
     /\ perm_request.reason \in BlockedReasons)
    => /\ last_call.proc = NotSpawned
       /\ ~tool_result.success

\* C36 witness: a command that holds the engine's dd literal in capitals
\* inside a longer command line was denied by the engine for that literal
\* and refused by the tool.
C36_Witness ==
    /\ last_call.op = "bash"
    /\ last_call.command = cmd_DD_sda
    /\ perm_request.level = DENY
    /\ perm_request.reason \in BlockedReasons
    /\ last_call.proc = NotSpawned
    /\ tool_result.error = SomeText(BLOCKED_FOR_SAFETY)


\* C37: when a bash command that holds no blocked literal and matches no
\* dangerous pattern is covered by a session allow rule and by a session
\* deny rule, the allow rule wins: check_permission answers AUTO in every
\* mode, so a deny rule never turns an allow-rule AUTO into DENY.
C37_AllowRuleWinsOverDenyRule ==
    (/\ BashChecked
     /\ ~HasBlockedLiteral(CommandOf(perm_request))
     /\ ~MatchesDangerous(CommandOf(perm_request))
     /\ SessionRuleCovers(session_allowlist, BASH_RULE,
                          CommandOf(perm_request))
     /\ SessionRuleCovers(session_denylist, BASH_RULE,
                          CommandOf(perm_request)))
    => /\ perm_request.level = AUTO
       /\ perm_request.reason = None

\* C37 witness: in normal mode a harmless command covered by a rule of the
\* allow set and by a rule of the deny set was classified AUTO.
C37_Witness ==
    /\ BashChecked
    /\ ~trust_mode /\ ~yolo_mode
    /\ CommandOf(perm_request) = cmd_ls_l
    /\ SessionRuleCovers(session_allowlist, BASH_RULE, cmd_ls_l)
    /\ SessionRuleCovers(session_denylist, BASH_RULE, cmd_ls_l)
    /\ perm_request.level = AUTO


\* C38: in bypass-all mode check_permission never answers ASK: a call of a
\* tool other than bash is AUTO whatever its arguments and the session
\* rules, and a bash call is AUTO unless the shell classification is
\* DENY, in which case it stays DENY with the classification's reason.
C38_YoloNeverAsks ==
    (perm_request.level # None /\ yolo_mode)
    => /\ perm_request.level # ASK
       /\ perm_request.tool_name # "bash" => perm_request.level = AUTO
       /\ perm_request.tool_name = "bash" =>
             LET shell == _check_bash_command(CommandOf(perm_request),
                              session_allowlist, session_denylist)
             IN IF shell[1] = DENY
                THEN /\ perm_request.level = DENY
                     /\ perm_request.reason = shell[2]
                ELSE perm_request.level = AUTO

\* C38 witness: in bypass-all mode without trust mode, a write_file call
\* that no allow rule covers was classified AUTO while a deny rule is
\* recorded.
C38_Witness ==
    /\ perm_request.level # None
    /\ yolo_mode /\ ~trust_mode
    /\ perm_request.tool_name = "write_file"
    /\ ~SessionRuleCovers(session_allowlist, WRITE_RULE,
                          Get(perm_request.tool_input, "path"))
    /\ session_denylist # {}
    /\ perm_request.level = AUTO


\* the result _execute_tool returns for a name the registry does not hold
UnknownToolResult(name) == "Error: Unknown tool '" \o name \o "'"

\* C39: for a tool call whose name is not registered the loop records the
\* result 'Error: Unknown tool ...' for that call without consulting the
\* Permission Engine and without prompting the human, in every mode; the
\* session rule sets are unchanged, nothing is executed, and the remaining
\* calls of the batch are still processed.
C39_UnknownToolIsRecorded ==
    [][(/\ pc = "executing_tools"
        /\ ~Registered(tool_calls[idx].name))
       => /\ perm_request' = NoRequest
          /\ pc' # "awaiting_permission"
          /\ UNCHANGED permVars
          /\ executed' = executed
          /\ results' = Append(results,
                 ToolMessage(tool_calls[idx].id,
                             UnknownToolResult(tool_calls[idx].name)))
          /\ IF idx < Len(tool_calls)
             THEN /\ idx' = idx + 1
                  /\ pc' = "executing_tools"
                  /\ tool_calls' = tool_calls
             ELSE SubSeq(messages', Len(messages) + 1, Len(messages'))
                      = results'
    ]_vars

\* C39 witness: in normal mode the first call of a batch of two named an
\* unregistered tool; its error is recorded, no request was made of the
\* engine, and the loop is at the second call.
C39_Witness ==
    /\ ~trust_mode /\ ~yolo_mode
    /\ pc = "executing_tools"
    /\ Len(tool_calls) = 2
    /\ idx = 2
    /\ tool_calls[1].name = "nope"
    /\ Len(results) = 1
    /\ results[1].content = UnknownToolResult("nope")
    /\ perm_request = NoRequest


\* C40: a glob search returns a file below the base path whenever the
\* file matches the pattern and no part of its path relative to the base
\* is a skipped name, up to the result limit, whatever the names of the
\* base directory and of the directories above it are.
C40_BaseAncestorsDoNotMatter ==
    (/\ last_call.op = "glob"
     /\ Cardinality(tool_result.matches) < last_call.limit)
    => \A f \in tree :
          (/\ GlobMatches(last_call.pattern, f)
           /\ \A k \in 1..Len(f) : f[k] \notin SKIP_DIRS)
          => f \in tool_result.matches

====
